---- MODULE Spec2Model ----
(***************************************************************************)
(* A model of the council daemon's guarded operations:                     *)
(*   - the @OneAtTime() single-flight guard around handleNewBlock,         *)
(*     pauseAKeyDeposits and updateBalance,                                *)
(*   - the pause submission of both SecurityService variants,              *)
(*   - the deposit events cache refresh (updateEventsCache) with its       *)
(*     chunk walk and the splitting / retrying fetchEventsFallOver.        *)
(* Asynchronous methods are cut into steps at their awaits; several calls  *)
(* of one method may be in flight and interleave at those points.          *)
(***************************************************************************)
EXTENDS Integers, Sequences, FiniteSets, TLC

\* ------------------------------------------------------------------ bounds
\* (the chunk size, the lag and the update rate stand in for the values of
\* deposit.constants, scaled down to the modelled chain)

\* calls of one method that may be in flight or finished in one process run
MaxCalls == 2
\* highest block number the chain reaches
MaxHead == 7
\* blocks per chunk of a refresh
DEPOSIT_EVENTS_STEP == 3
\* the newest blocks that are never cached
DEPOSIT_EVENTS_CACHE_LAG_BLOCKS == 1
\* handleNewBlock refreshes on every block number divisible by this
DEPOSIT_EVENTS_CACHE_UPDATE_BLOCK_RATE == 2
\* the largest account balance the provider reports
MaxBalance == 2
\* calls of all methods together in one process run
MaxArrivals == 3
\* the highest block number in a signing request
MaxSignedBlock == 2
\* the highest validator index in a signing request
MaxSignedIndex == 2
\* the highest nonce of a staking module
MaxNonce == 1
\* the highest block whose hash a keys request or a keys response carries
MaxKeysBlock == 1
\* calls of getStakingModuleUnusedKeys in one process run
MaxKeysCalls == 2
\* timers that subscribe calls set in one process run
MaxIntervals == 2
\* runs of _subscribe that the timers start in one process run
MaxPolls == 3
\* messages one client.get returns at most
MaxMessages == 1

\* --------------------------------------------------------------- constants

WALLET_MIN_BALANCE == 1

\* getDeploymentBlockByNetwork(chainId): the block of the deposit contract's deployment
DEPLOYMENT_BLOCK == 1

APP_VERSION == "V2"

PRIVATE_KEY == "guardianKey"

None == "none"

Calls == 1..MaxCalls

Methods == {"onModuleInit", "handleNewBlock", "getAllDepositedEvents", "pauseAKeyDeposits", "pauseDeposits", "updateBalance", "initCachedContracts", "SecurityService.onModuleInit"}

PauseMethods == {"pauseAKeyDeposits", "pauseDeposits"}

VARIABLES
    pc,                        \* pc[m][c]: where call c of method m stands
    isExecuting,               \* isExecuting[m]: the guard's flag of method m
    depositsPaused,            \* on chain: deposits are paused
    pcall,                     \* pcall[m][c]: what pause call c did so far
    pauseAttempts,             \* the METRIC_PAUSE_ATTEMPTS counter
    cachedPauseMessagePrefix,  \* SecurityService.cachedPauseMessagePrefix
    cachedSignerContract,      \* cachedDepositSecurityContractWithSigner is set
    accountBalance,            \* the METRIC_ACCOUNT_BALANCE gauge
    privateKey,                \* WalletService.privateKey
    cachedWallet,              \* WalletService.cachedWallet
    lastAccess,                \* the wallet the latest access of the getter returned
    firstSigned,               \* the first signing request of the run and its signature
    signed,                    \* the latest signing request and its signature
    chainHead,                 \* the chain's newest block
    store,                     \* the persisted deposit events cache
    refresh,                   \* refresh[c]: the locals of handleNewBlock call c
    getAll,                    \* the locals of the getAllDepositedEvents call
    tempContractsCache,        \* RepositoryService.tempContractsCache: key -> address of the handle
    permanentContractsCache,   \* RepositoryService.permanentContractsCache[DEPOSIT_NODE_OPERATOR_ABI]
    cachedDSMPrefixes,         \* RepositoryService.cachedDSMPrefixes: the current object and its entries
    prefixCall,                \* prefixCall[c][kind]: the prefix getter that pass c called
    depositCall,               \* depositCall[c]: the DSM handle call c's getDepositAddress read
    initOrWait,                \* the initOrWaitCachedContracts call: its step, block and passes
    reported,                  \* reported[c]: the addresses the locator gave initCachedContracts call c
    logged,                    \* what the last repository step wrote to the log
    guardians,                 \* on chain: the guardian list of the security contract
    guardianIndex,             \* the latest getGuardianIndex call: what it read and returned
    guardianLogged,            \* what SecurityService.onModuleInit logged
    stakingRouterCache,        \* StakingRouterService.stakingRouterCache: module id -> stored keys response
    keysCall,                  \* keysCall[c]: getStakingModuleUnusedKeys call c, its arguments and outcome
    closed,                    \* RabbitTransport.closed
    intervals,                 \* the timers subscribe has set, in order: the message type of each
    polls                      \* the _subscribe runs the timers started, in order

guardVars == <<pc, isExecuting>>

pauseVars == <<depositsPaused, pcall, pauseAttempts, cachedPauseMessagePrefix, cachedSignerContract>>

walletVars == <<accountBalance, privateKey, cachedWallet, lastAccess, firstSigned, signed>>

depositVars == <<chainHead, store, refresh, getAll>>

guardianVars == <<guardians, guardianIndex, guardianLogged>>

keysVars == <<stakingRouterCache, keysCall>>

transportVars == <<closed, intervals, polls>>

repositoryVars == <<tempContractsCache, permanentContractsCache, cachedDSMPrefixes, prefixCall, depositCall, initOrWait, reported, logged>>

vars == <<pc, isExecuting, depositsPaused, pcall, pauseAttempts, cachedPauseMessagePrefix, cachedSignerContract, accountBalance, privateKey, cachedWallet, lastAccess, firstSigned, signed, chainHead, store, refresh, getAll, tempContractsCache, permanentContractsCache, cachedDSMPrefixes, prefixCall, depositCall, initOrWait, reported, logged, guardians, guardianIndex, guardianLogged, stakingRouterCache, keysCall, closed, intervals, polls>>

\* ------------------------------------------------------- single-flight guard

\* a forgotten decorator on the pause submission
IsGuardedPauseUnguarded(m) == m \in {"handleNewBlock", "updateBalance"}

\* a forgotten decorator on the block handler
IsGuardedHandlerUnguarded(m) == m \in {"pauseAKeyDeposits", "updateBalance"}

\* a forgotten decorator on the balance update
IsGuardedWalletUnguarded(m) == m \in {"handleNewBlock", "pauseAKeyDeposits"}

\* the methods that carry @OneAtTime()
IsGuarded(m) == m \in {"handleNewBlock", "pauseAKeyDeposits", "updateBalance"}

\* `if (isExecuting) return`: the call is refused while an execution is in flight
GuardBusy(m) == IsGuarded(m) /\ isExecuting[m]

\* isExecuting = true, before the method is applied
GuardAcquire(m) == IF IsGuarded(m) THEN [isExecuting EXCEPT ![m] = TRUE] ELSE isExecuting

\* a guard that clears the flag after the awaited call only, without a finally
GuardReleaseOnSuccessOnly(m, outcome) == IF IsGuarded(m) /\ outcome # "threw" THEN [isExecuting EXCEPT ![m] = FALSE] ELSE isExecuting

\* finally { isExecuting = false }: on every exit path
GuardRelease(m, outcome) == IF IsGuarded(m) THEN [isExecuting EXCEPT ![m] = FALSE] ELSE isExecuting

\* the pcs of a call that is not executing its method's body
Outside == {"idle", "signed", "signFailed", "dropped", "returned", "skipped", "threw", "exited"}

InBody(m, c) == pc[m][c] \notin Outside

\* the calls made so far in this process run
Arrivals == Cardinality({mc \in Methods \X Calls : pc[mc[1]][mc[2]] # "idle"})

\* calls are numbered in their order of arrival
IsNextCall(m, c) == pc[m][c] = "idle" /\ pc["onModuleInit"][1] # "exited" /\ Arrivals < MaxArrivals /\ \A d \in Calls : pc[m][d] = "idle" => c <= d

SetPc(m, c, p) == pc' = [pc EXCEPT ![m][c] = p]

\* the body ends: the wrapper's cleanup runs and the caller sees `outcome`
Exit(m, c, outcome) ==
    /\ pc' = [pc EXCEPT ![m][c] = outcome]
    /\ isExecuting' = GuardRelease(m, outcome)

\* the body moves on to p, which ends it when p is an outcome
Goto(m, c, p) == IF p \in Outside THEN Exit(m, c, p) ELSE SetPc(m, c, p) /\ UNCHANGED isExecuting

\* ------------------------------------------------------------------- signing

Keccak256(data) == <<"keccak256", data>>

\* SigningKey.signDigest: deterministic in the key and the digest
SignDigest(key, digest) == [r |-> <<"r", key, digest>>, vs |-> <<"vs", key, digest>>]

\* solidityPack(['bytes32','uint256','uint256','uint256'], ...) then keccak256 then signDigest
WalletSignPauseData(prefix, blockNumber, index, slashAmount) == SignDigest(PRIVATE_KEY, Keccak256(<<prefix, blockNumber, index, slashAmount>>))

\* contract.getUnsafeMessagePrefix()
UnsafeMessagePrefix == "UNSAFE_MESSAGE_PREFIX"

\* contract.getAttestMessagePrefix()
AttestMessagePrefix == "ATTEST_MESSAGE_PREFIX"

\* solidityPack(types, values): the values in the order given, each in its type's layout
SolidityPack(types, values) == [types |-> types, values |-> values]

\* defaultAbiCoder.encode(types, values)
AbiEncode(types, values) == [types |-> types, values |-> values]

\* a private key that was not provided
NoKey == ""

\* the keys Wallet.createRandom() may draw
RandomKeys == {"randomKey1", "randomKey2"}

\* new Wallet(privateKey).address
AddressOf(key) == <<"address", key>>

NoWallet == [privateKey |-> NoKey, address |-> AddressOf(NoKey), instance |-> 0]

\* signer: the address of the signing wallet; repeat: the request is the first request of the run again
NoSigned == [method |-> None, wallet |-> 0, signer |-> AddressOf(NoKey), encodedData |-> AbiEncode(<<>>, <<>>), signature |-> SignDigest(NoKey, None), repeat |-> FALSE]

\* two signing requests ask for the same method over the same data
SameRequest(method, encodedData, other) == method = other.method /\ encodedData.types = other.encodedData.types /\ encodedData.values = other.encodedData.values

\* a getter that builds a wallet on every access
WalletGetUncached(key, cached, random) == [privateKey |-> IF key = NoKey THEN random ELSE key, address |-> AddressOf(IF key = NoKey THEN random ELSE key), instance |-> cached.instance + 1]

\* get wallet(): the cached instance, or a new Wallet of the given key, or of a random key
\* when none was given
WalletGet(key, cached, random) ==
    IF cached # NoWallet THEN cached
    ELSE [privateKey |-> IF key = NoKey THEN random ELSE key, address |-> AddressOf(IF key = NoKey THEN random ELSE key), instance |-> cached.instance + 1]

\* a signature that consumes a fresh nonce per call
SignMessageFresh(wallet, message) == SignDigest(wallet.privateKey, <<message, signed.signature>>)

\* signMessage: this.wallet._signingKey().signDigest(message)
SignMessage(wallet, message) == SignDigest(wallet.privateKey, message)

\* --------------------------------------------------------------- pause calls

NoPauseCall == [sig |-> None, pausedAtInvoke |-> FALSE, check |-> "none", sends |-> 0, tx |-> "none"]

SetPcall(m, c, rec) == pcall' = [pcall EXCEPT ![m][c] = rec]

\* the caller builds the pause signature: SecurityService.signPauseData
SignPauseData(c) ==
    /\ IsNextCall("pauseAKeyDeposits", c)
    /\ UNCHANGED <<keysVars, transportVars, isExecuting, depositsPaused, pauseAttempts, cachedSignerContract, walletVars, repositoryVars, guardianVars, depositVars>>
    /\ \/ \E index \in 0..1 :
            LET prefix == IF cachedPauseMessagePrefix # None THEN cachedPauseMessagePrefix ELSE UnsafeMessagePrefix
            IN  /\ cachedPauseMessagePrefix' = prefix
                /\ SetPcall("pauseAKeyDeposits", c, [pcall["pauseAKeyDeposits"][c] EXCEPT !.sig = WalletSignPauseData(prefix, chainHead, index, 0)])
                /\ SetPc("pauseAKeyDeposits", c, "signed")
       \/ /\ cachedPauseMessagePrefix = None
          /\ SetPc("pauseAKeyDeposits", c, "signFailed")
          /\ UNCHANGED <<keysVars, transportVars, pcall, cachedPauseMessagePrefix>>

\* pauseAKeyDeposits is called: the guard, then the body up to its first await
PauseAKeyInvoke(c) ==
    /\ pc["pauseAKeyDeposits"][c] = "signed"
    /\ UNCHANGED <<keysVars, transportVars, depositsPaused, cachedPauseMessagePrefix, cachedSignerContract, walletVars, repositoryVars, guardianVars, depositVars>>
    /\ IF GuardBusy("pauseAKeyDeposits")
       THEN /\ SetPc("pauseAKeyDeposits", c, "dropped")
            /\ UNCHANGED <<keysVars, transportVars, isExecuting, pcall, pauseAttempts>>
       ELSE /\ isExecuting' = GuardAcquire("pauseAKeyDeposits")
            /\ pauseAttempts' = pauseAttempts + 1
            /\ SetPcall("pauseAKeyDeposits", c, [pcall["pauseAKeyDeposits"][c] EXCEPT !.pausedAtInvoke = depositsPaused])
            /\ SetPc("pauseAKeyDeposits", c, "getContract")

\* await this.getDepositSecurityContractWithSigner()
PauseAKeyGetContract(c) ==
    /\ pc["pauseAKeyDeposits"][c] = "getContract"
    /\ UNCHANGED <<keysVars, transportVars, depositsPaused, pcall, pauseAttempts, cachedPauseMessagePrefix, walletVars, repositoryVars, guardianVars, depositVars>>
    /\ \/ /\ cachedSignerContract' = TRUE
          /\ SetPc("pauseAKeyDeposits", c, "send")
          /\ UNCHANGED isExecuting
       \/ /\ ~cachedSignerContract
          /\ Exit("pauseAKeyDeposits", c, "threw")
          /\ UNCHANGED cachedSignerContract

\* a send that is tried again after it failed
PauseAfterSendFailRetry == "send"

\* a failure that is caught and logged
PauseAfterSendFailSwallow == "returned"

\* no try/catch around the send and the wait: the rejection leaves the method
PauseAfterSendFail == "threw"

\* await contract.setValidatorUnsafe(blocknumber, index, slashAmount, {r, vs})
PauseAKeySend(c) ==
    /\ pc["pauseAKeyDeposits"][c] = "send"
    /\ UNCHANGED <<keysVars, transportVars, depositsPaused, pauseAttempts, cachedPauseMessagePrefix, cachedSignerContract, walletVars, repositoryVars, guardianVars, depositVars>>
    /\ \/ /\ SetPcall("pauseAKeyDeposits", c, [pcall["pauseAKeyDeposits"][c] EXCEPT !.sends = @ + 1, !.tx = "pending"])
          /\ SetPc("pauseAKeyDeposits", c, "wait")
          /\ UNCHANGED isExecuting
       \/ /\ SetPcall("pauseAKeyDeposits", c, [pcall["pauseAKeyDeposits"][c] EXCEPT !.sends = @ + 1, !.tx = "rejected"])
          /\ Goto("pauseAKeyDeposits", c, PauseAfterSendFail)

\* await tx.wait()
PauseAKeyWait(c) ==
    /\ pc["pauseAKeyDeposits"][c] = "wait"
    /\ UNCHANGED <<keysVars, transportVars, pauseAttempts, cachedPauseMessagePrefix, cachedSignerContract, walletVars, repositoryVars, guardianVars, depositVars>>
    /\ \/ /\ SetPcall("pauseAKeyDeposits", c, [pcall["pauseAKeyDeposits"][c] EXCEPT !.tx = "confirmed"])
          /\ depositsPaused' = TRUE
          /\ Exit("pauseAKeyDeposits", c, "returned")
       \/ /\ SetPcall("pauseAKeyDeposits", c, [pcall["pauseAKeyDeposits"][c] EXCEPT !.tx = "failed"])
          /\ UNCHANGED depositsPaused
          /\ Goto("pauseAKeyDeposits", c, PauseAfterSendFail)

\* the older SecurityService.pauseDeposits is called: no guard; up to its first await
PauseDepositsInvoke(c) ==
    /\ IsNextCall("pauseDeposits", c)
    /\ UNCHANGED <<keysVars, transportVars, isExecuting, depositsPaused, pauseAttempts, cachedPauseMessagePrefix, cachedSignerContract, walletVars, repositoryVars, guardianVars, depositVars>>
    /\ SetPcall("pauseDeposits", c, [pcall["pauseDeposits"][c] EXCEPT !.sig = SignDigest(PRIVATE_KEY, Keccak256(<<"PAUSE_MESSAGE_PREFIX", chainHead>>)), !.pausedAtInvoke = depositsPaused])
    /\ SetPc("pauseDeposits", c, "isPaused")

\* (await this.getContract()).connect(wallet); await contract.isPaused()
PauseDepositsIsPaused(c) ==
    /\ pc["pauseDeposits"][c] = "isPaused"
    /\ UNCHANGED <<keysVars, transportVars, depositsPaused, pauseAttempts, cachedPauseMessagePrefix, cachedSignerContract, walletVars, repositoryVars, guardianVars, depositVars>>
    /\ \/ /\ depositsPaused
          /\ SetPcall("pauseDeposits", c, [pcall["pauseDeposits"][c] EXCEPT !.check = "paused"])
          /\ Exit("pauseDeposits", c, "returned")
       \/ /\ ~depositsPaused
          /\ SetPcall("pauseDeposits", c, [pcall["pauseDeposits"][c] EXCEPT !.check = "notPaused"])
          /\ Goto("pauseDeposits", c, "send")
       \/ /\ Exit("pauseDeposits", c, "threw")
          /\ UNCHANGED pcall

\* return await contract.pauseDeposits(blockNumber, blockHash, {r, vs})
PauseDepositsSend(c) ==
    /\ pc["pauseDeposits"][c] = "send"
    /\ UNCHANGED <<keysVars, transportVars, depositsPaused, pauseAttempts, cachedPauseMessagePrefix, cachedSignerContract, walletVars, repositoryVars, guardianVars, depositVars>>
    /\ \/ /\ SetPcall("pauseDeposits", c, [pcall["pauseDeposits"][c] EXCEPT !.sends = @ + 1, !.tx = "pending"])
          /\ Exit("pauseDeposits", c, "returned")
       \/ /\ SetPcall("pauseDeposits", c, [pcall["pauseDeposits"][c] EXCEPT !.sends = @ + 1, !.tx = "rejected"])
          /\ Exit("pauseDeposits", c, "threw")

\* the chain: a pause is mined, another guardian's or a pending one of this node
ExternalPause ==
    /\ ~depositsPaused
    /\ depositsPaused' = TRUE
    /\ UNCHANGED <<keysVars, transportVars, guardVars, pcall, pauseAttempts, cachedPauseMessagePrefix, cachedSignerContract, walletVars, repositoryVars, guardianVars, depositVars>>

\* -------------------------------------------------------------------- wallet

\* updateBalance is called: the guard, then provider.getBalance(this.address) is awaited
UpdateBalanceInvoke(c) ==
    /\ IsNextCall("updateBalance", c)
    /\ UNCHANGED <<keysVars, transportVars, pauseVars, walletVars, repositoryVars, guardianVars, depositVars>>
    /\ IF GuardBusy("updateBalance")
       THEN SetPc("updateBalance", c, "dropped") /\ UNCHANGED isExecuting
       ELSE SetPc("updateBalance", c, "getBalance") /\ isExecuting' = GuardAcquire("updateBalance")

\* the balance arrives: the gauge is set and the balance logged; or getBalance rejects
UpdateBalanceDone(c) ==
    /\ pc["updateBalance"][c] = "getBalance"
    /\ UNCHANGED <<keysVars, transportVars, pauseVars, repositoryVars, guardianVars, depositVars, privateKey, cachedWallet, lastAccess, firstSigned, signed>>
    /\ \/ \E balanceWei \in 0..MaxBalance :
            /\ accountBalance' = [value |-> balanceWei, isSufficient |-> balanceWei >= WALLET_MIN_BALANCE]
            /\ Exit("updateBalance", c, "returned")
       \/ /\ Exit("updateBalance", c, "threw")
          /\ UNCHANGED accountBalance

\* an access of the wallet getter: the field and the key are set as the getter leaves them
AccessWallet(random) ==
    /\ cachedWallet' = WalletGet(privateKey, cachedWallet, random)
    /\ privateKey' = IF cachedWallet = NoWallet /\ privateKey = NoKey THEN cachedWallet'.privateKey ELSE privateKey
    /\ lastAccess' = cachedWallet'

\* get address(): this.wallet.address
WalletAddress ==
    /\ \E random \in RandomKeys : AccessWallet(random)
    /\ UNCHANGED <<keysVars, transportVars, guardVars, pauseVars, repositoryVars, guardianVars, depositVars, accountBalance, firstSigned, signed>>

\* the request and the signature are noted, the first of the run apart
NoteSigned(method, encodedData) ==
    /\ signed' = [method |-> method, wallet |-> cachedWallet'.instance, signer |-> cachedWallet'.address, encodedData |-> encodedData,
                  signature |-> SignMessage(cachedWallet', Keccak256(encodedData)), repeat |-> SameRequest(method, encodedData, firstSigned)]
    /\ firstSigned' = IF firstSigned = NoSigned THEN signed' ELSE firstSigned

\* the values a signing request can carry
BlockNumbers == 1..MaxSignedBlock

ValidatorIndexes == 1..MaxSignedIndex

\* SecurityService.signDepositData: the attest prefix from the contract, then
\* WalletService.signDepositData packs it before the fields
SignDepositData ==
    /\ \E random \in RandomKeys : AccessWallet(random)
    /\ UNCHANGED <<keysVars, transportVars, guardVars, pauseVars, repositoryVars, guardianVars, depositVars, accountBalance>>
    /\ \E blockNumber \in BlockNumbers, index \in ValidatorIndexes :
          LET messagePrefix == AttestMessagePrefix
          IN  NoteSigned("signDepositData", SolidityPack(<<"bytes32", "uint256", "bytes32", "bytes32", "uint256[]">>, <<messagePrefix, blockNumber, <<"blockHash", blockNumber>>, <<"depositRoot", blockNumber>>, <<index>>>>))

\* SecurityService.signPauseData: the pause prefix from the contract, then
\* WalletService.signPauseData packs it before the fields
SignPauseDataPrefixed ==
    /\ \E random \in RandomKeys : AccessWallet(random)
    /\ UNCHANGED <<keysVars, transportVars, guardVars, pauseVars, repositoryVars, guardianVars, depositVars, accountBalance>>
    /\ \E blockNumber \in BlockNumbers, index \in ValidatorIndexes :
          LET messagePrefix == UnsafeMessagePrefix
          IN  NoteSigned("signPauseData", SolidityPack(<<"bytes32", "uint256", "uint256", "uint256">>, <<messagePrefix, blockNumber, index, 0>>))

\* WalletService.signDepositData({ indexList }): the index list alone is encoded
SignDepositDataParams ==
    /\ \E random \in RandomKeys : AccessWallet(random)
    /\ UNCHANGED <<keysVars, transportVars, guardVars, pauseVars, repositoryVars, guardianVars, depositVars, accountBalance>>
    /\ \E index \in ValidatorIndexes : NoteSigned("signDepositData", AbiEncode(<<"uint256[]">>, <<<<index>>>>))

\* WalletService.signSetValidatorUnsafeData({ index, slashAmount })
SignSetValidatorUnsafeData ==
    /\ \E random \in RandomKeys : AccessWallet(random)
    /\ UNCHANGED <<keysVars, transportVars, guardVars, pauseVars, repositoryVars, guardianVars, depositVars, accountBalance>>
    /\ \E index \in ValidatorIndexes : NoteSigned("signSetValidatorUnsafeData", AbiEncode(<<"uint256", "uint256">>, <<index, 0>>))

NextSigning == WalletAddress \/ SignDepositData \/ SignPauseDataPrefixed \/ SignDepositDataParams \/ SignSetValidatorUnsafeData

\* ----------------------------------------------------------------- guardians

\* the addresses that may be on the guardian list
GuardianCandidates == {AddressOf(PRIVATE_KEY), AddressOf("guardianKeyB"), AddressOf("guardianKeyC")}

\* the guardian lists the contract may hold: no address twice
GuardianLists == {list \in UNION {[1..n -> GuardianCandidates] : n \in 0..Cardinality(GuardianCandidates)} : \A i, j \in DOMAIN list : list[i] = list[j] => i = j}

\* guardians.indexOf(address), and the contract's getGuardianIndex(address): the position
\* counted from 0, or -1
IndexOf(list, address) == IF \E i \in DOMAIN list : list[i] = address THEN (CHOOSE i \in DOMAIN list : list[i] = address) - 1 ELSE -1

NoGuardianIndex == [by |-> None, guardians |-> <<>>, address |-> AddressOf(NoKey), index |-> -2]

\* the chain: the guardian list is changed
ExternalGuardians ==
    /\ \E list \in GuardianLists : list # guardians /\ guardians' = list
    /\ UNCHANGED <<keysVars, transportVars, guardVars, pauseVars, walletVars, repositoryVars, depositVars, guardianIndex, guardianLogged>>

\* getGuardianIndex of the SecurityService that reads the list: getGuardians resolves,
\* then indexOf
GetGuardianIndexOfList ==
    /\ \E random \in RandomKeys : AccessWallet(random)
    /\ guardianIndex' = [by |-> "indexOf", guardians |-> guardians, address |-> cachedWallet'.address, index |-> IndexOf(guardians, cachedWallet'.address)]
    /\ UNCHANGED <<keysVars, transportVars, guardVars, pauseVars, repositoryVars, depositVars, accountBalance, firstSigned, signed, guardians, guardianLogged>>

\* getGuardianIndex of the SecurityService that asks the contract: index.toNumber()
GetGuardianIndexOfContract ==
    /\ \E random \in RandomKeys : AccessWallet(random)
    /\ guardianIndex' = [by |-> "contract", guardians |-> guardians, address |-> cachedWallet'.address, index |-> IndexOf(guardians, cachedWallet'.address)]
    /\ UNCHANGED <<keysVars, transportVars, guardVars, pauseVars, repositoryVars, depositVars, accountBalance, firstSigned, signed, guardians, guardianLogged>>

\* SecurityService.onModuleInit is called: up to the await of getGuardianIndex
SecurityOnModuleInitInvoke ==
    /\ IsNextCall("SecurityService.onModuleInit", 1)
    /\ SetPc("SecurityService.onModuleInit", 1, "getGuardianIndex")
    /\ UNCHANGED <<keysVars, transportVars, isExecuting, pauseVars, walletVars, repositoryVars, depositVars, guardianVars>>

\* an initialisation that fails when the address is not on the list
AfterGuardianIndexAbsentFatal(index) == IF index = -1 THEN "threw" ELSE "returned"

\* `if (guardianIndex === -1) warn else log`: both branches return
AfterGuardianIndex(index) == "returned"

\* getGuardianIndex resolves: a warning when the address is not on the list, otherwise
\* a log line; or the contract call rejects
SecurityOnModuleInitDone ==
    /\ pc["SecurityService.onModuleInit"][1] = "getGuardianIndex"
    /\ UNCHANGED <<keysVars, transportVars, pauseVars, repositoryVars, depositVars, accountBalance, firstSigned, signed, guardians>>
    /\ \/ /\ \E random \in RandomKeys : AccessWallet(random)
          /\ guardianIndex' = [by |-> "onModuleInit", guardians |-> guardians, address |-> cachedWallet'.address, index |-> IndexOf(guardians, cachedWallet'.address)]
          /\ guardianLogged' = (IF guardianIndex'.index = -1 THEN "warn: Your address is not in the Guardian List" ELSE "log: You address is in the Guardian List")
          /\ Exit("SecurityService.onModuleInit", 1, AfterGuardianIndex(guardianIndex'.index))
       \/ /\ Exit("SecurityService.onModuleInit", 1, "threw")
          /\ UNCHANGED <<keysVars, transportVars, privateKey, cachedWallet, lastAccess, guardianIndex, guardianLogged>>

NextGuardian == ExternalGuardians \/ GetGuardianIndexOfList \/ GetGuardianIndexOfContract \/ SecurityOnModuleInitInvoke \/ SecurityOnModuleInitDone

\* ------------------------------------------------------------ deposit events

Max(a, b) == IF a >= b THEN a ELSE b

Min(a, b) == IF a <= b THEN a ELSE b

\* the chain: how many DepositEvent logs block b holds
DepositsInBlock(b) == b % 3

\* the chain: the i-th DepositEvent log of block b
RawEvent(b, i) == [blockNumber |-> b, transactionHash |-> <<"tx", b, i>>, logIndex |-> i, args |-> [pubkey |-> <<"pubkey", b, i>>, withdrawal_credentials |-> "wc", amount |-> "32eth", signature |-> <<"signature", b, i>>]]

\* keeps the fields the cache stores
formatEvent(rawEvent) == [pubkey |-> rawEvent.args.pubkey, wc |-> rawEvent.args.withdrawal_credentials, amount |-> rawEvent.args.amount, signature |-> rawEvent.args.signature, tx |-> rawEvent.transactionHash, blockNumber |-> rawEvent.blockNumber]

\* the logs of one block, in log order
BlockLogs(b) == [i \in 1..DepositsInBlock(b) |-> RawEvent(b, i)]

\* contract.queryFilter(filter, startBlock, endBlock): the logs of the range, ascending
RECURSIVE QueryFilter(_, _)
QueryFilter(startBlock, endBlock) == IF startBlock > endBlock THEN <<>> ELSE BlockLogs(startBlock) \o QueryFilter(startBlock + 1, endBlock)

\* fetchEvents: the formatted events of the range
FetchEvents(startBlock, endBlock) == LET rawEvents == QueryFilter(startBlock, endBlock) IN [i \in 1..Len(rawEvents) |-> formatEvent(rawEvents[i])]

\* what cacheService.getCache() returns when nothing is persisted
DefaultCache == [version |-> "-1", startBlock |-> 0, endBlock |-> 0, events |-> <<>>]

\* a clamp of endBlock alone
ClampedCacheEndOnly(cachedEventGroup) == [cachedEventGroup EXCEPT !.endBlock = Max(cachedEventGroup.endBlock, DEPLOYMENT_BLOCK)]

\* {...cachedEventGroup, startBlock: Math.max(...), endBlock: Math.max(...)}
ClampedCache(cachedEventGroup) == [cachedEventGroup EXCEPT !.startBlock = Max(cachedEventGroup.startBlock, DEPLOYMENT_BLOCK), !.endBlock = Max(cachedEventGroup.endBlock, DEPLOYMENT_BLOCK)]

\* getCachedEvents: the persisted cache, clamped to the deployment block
GetCachedEvents == ClampedCache(store)

\* setCachedEvents: the event group is persisted under the running version
SetCachedEvents(eventGroup) == [eventGroup EXCEPT !.version = APP_VERSION]

\* the call has read no cache yet
NoEventGroup == [version |-> None, startBlock |-> -1, endBlock |-> -1, events |-> <<>>]

NoRefresh == [remainder |-> -1, arrivedBusy |-> FALSE, initialCache |-> NoEventGroup, eventGroup |-> NoEventGroup, currentBlock |-> -1, toBlock |-> -1, block |-> -1, leaves |-> <<>>, chunks |-> <<>>, queried |-> FALSE, writes |-> 0]

SetRefresh(c, rec) == refresh' = [refresh EXCEPT ![c] = rec]

\* the chain and the provider: the reported head moves by a block (forward, or back after a reorg or a lagging node)
ProviderHead ==
    /\ \E h \in {chainHead - 1, chainHead + 1} : h \in 0..MaxHead /\ chainHead' = h
    /\ UNCHANGED <<keysVars, transportVars, guardVars, pauseVars, walletVars, repositoryVars, guardianVars, store, refresh, getAll>>

\* a gate that lets every block number through
IsOffRateNever(blockNumber, rate) == FALSE

\* if (blockNumber % DEPOSIT_EVENTS_CACHE_UPDATE_BLOCK_RATE !== 0) return
IsOffRate(blockNumber, rate) == blockNumber % rate # 0

\* handleNewBlock is called: the guard, then the body up to its first await;
\* remainder keeps the blockNumber % DEPOSIT_EVENTS_CACHE_UPDATE_BLOCK_RATE the body computes
HandleNewBlock(c) ==
    /\ IsNextCall("handleNewBlock", c)
    /\ UNCHANGED <<keysVars, transportVars, pauseVars, walletVars, repositoryVars, guardianVars, getAll, chainHead, store>>
    /\ \E blockNumber \in {chainHead, chainHead + 1} :
          /\ SetRefresh(c, [refresh[c] EXCEPT !.remainder = (IF GuardBusy("handleNewBlock") THEN -1 ELSE blockNumber % DEPOSIT_EVENTS_CACHE_UPDATE_BLOCK_RATE), !.arrivedBusy = \E d \in Calls : InBody("handleNewBlock", d)])
          /\ IF GuardBusy("handleNewBlock")
             THEN SetPc("handleNewBlock", c, "dropped") /\ UNCHANGED isExecuting
             ELSE IF IsOffRate(blockNumber, DEPOSIT_EVENTS_CACHE_UPDATE_BLOCK_RATE)
                  THEN Exit("handleNewBlock", c, "skipped")
                  ELSE SetPc("handleNewBlock", c, "read") /\ isExecuting' = GuardAcquire("handleNewBlock")

\* a loop that starts again from the cache's first block
FirstNotCachedBlockFromStart(initialCache) == initialCache.startBlock + 1

\* the loop's first block
FirstNotCachedBlock(initialCache) == initialCache.endBlock + 1

\* a last block that forgets the lag
ToBlockNoLag(currentBlock, lag) == currentBlock

\* the loop's last block
ToBlock(currentBlock, lag) == currentBlock - lag

\* updateEventsCache: Promise.all([getBlockNumber(), getCachedEvents()]) resolves, or rejects
RefreshRead(c) ==
    /\ pc["handleNewBlock"][c] = "read"
    /\ UNCHANGED <<keysVars, transportVars, pauseVars, walletVars, repositoryVars, guardianVars, getAll, chainHead, store>>
    /\ \/ LET initialCache == GetCachedEvents
          IN  /\ SetRefresh(c, [refresh[c] EXCEPT !.initialCache = initialCache, !.eventGroup = initialCache, !.currentBlock = chainHead, !.toBlock = ToBlock(chainHead, DEPOSIT_EVENTS_CACHE_LAG_BLOCKS), !.block = FirstNotCachedBlock(initialCache)])
              /\ Goto("handleNewBlock", c, "loop")
       \/ /\ Exit("handleNewBlock", c, "threw")
          /\ UNCHANGED refresh

\* the end of the chunk that starts at block
ChunkToBlock(block, toBlock, step) == Min(toBlock, block + step - 1)

\* a loop step that starts the next chunk on the last block of this one
NextChunkBlockOverlap(block, step) == block + step - 1

\* the loop's step
NextChunkBlock(block, step) == block + step

\* the chunks the loop walks from block to toBlock
RECURSIVE ChunkWalk(_, _, _)
ChunkWalk(block, toBlock, step) == IF block <= toBlock THEN <<<<block, ChunkToBlock(block, toBlock, step)>>>> \o ChunkWalk(NextChunkBlock(block, step), toBlock, step) ELSE <<>>

Leaf(startBlock, endBlock) == [startBlock |-> startBlock, endBlock |-> endBlock, st |-> "query", err |-> "none", events |-> <<>>]

\* the loop condition holds: fetchEventsFallOver(chunkStartBlock, chunkToBlock) is called
ChunkStart(c) ==
    /\ pc["handleNewBlock"][c] = "loop"
    /\ refresh[c].block <= refresh[c].toBlock
    /\ UNCHANGED <<keysVars, transportVars, pauseVars, walletVars, repositoryVars, guardianVars, getAll, chainHead, store>>
    /\ LET chunkStartBlock == refresh[c].block
           chunkToBlock == ChunkToBlock(refresh[c].block, refresh[c].toBlock, DEPOSIT_EVENTS_STEP)
       IN  SetRefresh(c, [refresh[c] EXCEPT !.leaves = <<Leaf(chunkStartBlock, chunkToBlock)>>, !.chunks = Append(@, <<chunkStartBlock, chunkToBlock>>)])
    /\ Goto("handleNewBlock", c, "fetch")

\* the loop condition fails: the totals are logged and the method returns
RefreshDone(c) ==
    /\ pc["handleNewBlock"][c] = "loop"
    /\ ~(refresh[c].block <= refresh[c].toBlock)
    /\ UNCHANGED <<keysVars, transportVars, pauseVars, walletVars, repositoryVars, guardianVars, depositVars>>
    /\ Exit("handleNewBlock", c, "returned")

\* error?.error?.code === ERROR_LIMIT_EXCEEDED || error?.code === 'TIMEOUT'
IsPartitionRequired(kind) == kind \in {"limitExceeded", "timeout"}

\* endBlock - startBlock > 1
IsPartitionable(startBlock, endBlock) == endBlock - startBlock > 1

\* Math.ceil((endBlock + startBlock) / 2)
Center(startBlock, endBlock) == (endBlock + startBlock + 1) \div 2

\* the errors queryFilter rejects with: the provider's limit, a timeout, a malformed
\* range or filter, anything else
ErrorKinds == {"limitExceeded", "timeout", "permanent", "other"}

\* the halves of a split range joined in the wrong order, the later blocks first
SplitLeafSwapped(leaf) == <<Leaf(Center(leaf.startBlock, leaf.endBlock), leaf.endBlock), Leaf(leaf.startBlock, Center(leaf.startBlock, leaf.endBlock) - 1)>>

\* fetchEventsFallOver(startBlock, center - 1), fetchEventsFallOver(center, endBlock)
SplitLeaf(leaf) == <<Leaf(leaf.startBlock, Center(leaf.startBlock, leaf.endBlock) - 1), Leaf(Center(leaf.startBlock, leaf.endBlock), leaf.endBlock)>>

\* a catch that rethrows the errors that no retry can cure
FetchErrorOutcomeRethrowPermanent(kind) == IF kind = "permanent" THEN "threw" ELSE "sleep"

\* the else branch of the catch: every error that does not split is slept on and retried
FetchErrorOutcome(kind) == "sleep"

ReplaceLeaf(leaves, i, new) == SubSeq(leaves, 1, i - 1) \o new \o SubSeq(leaves, i + 1, Len(leaves))

Fetching(c, i) == pc["handleNewBlock"][c] = "fetch" /\ i \in DOMAIN refresh[c].leaves

\* fetchEvents(startBlock, endBlock) resolves
FetchOk(c, i) ==
    /\ Fetching(c, i)
    /\ refresh[c].leaves[i].st = "query"
    /\ UNCHANGED <<keysVars, transportVars, guardVars, pauseVars, walletVars, repositoryVars, guardianVars, getAll, chainHead, store>>
    /\ LET leaf == refresh[c].leaves[i]
       IN  SetRefresh(c, [refresh[c] EXCEPT !.leaves[i] = [leaf EXCEPT !.st = "ok", !.events = FetchEvents(leaf.startBlock, leaf.endBlock)],
                                            !.queried = TRUE])

\* fetchEvents rejects with a limit or timeout error on a range that can be split:
\* both halves are fetched, Promise.all keeps their order
FetchSplit(c, i) ==
    /\ Fetching(c, i)
    /\ refresh[c].leaves[i].st = "query"
    /\ UNCHANGED <<keysVars, transportVars, guardVars, pauseVars, walletVars, repositoryVars, guardianVars, getAll, chainHead, store>>
    /\ LET leaf == refresh[c].leaves[i]
       IN  /\ \E kind \in ErrorKinds : IsPartitionable(leaf.startBlock, leaf.endBlock) /\ IsPartitionRequired(kind)
           /\ SetRefresh(c, [refresh[c] EXCEPT !.leaves = ReplaceLeaf(@, i, SplitLeaf(leaf)),
                                                !.queried = TRUE])

\* fetchEvents rejects otherwise: a warning, then sleep(DEPOSIT_EVENTS_RETRY_TIMEOUT_MS)
FetchRetry(c, i) ==
    /\ Fetching(c, i)
    /\ refresh[c].leaves[i].st = "query"
    /\ UNCHANGED <<keysVars, transportVars, pauseVars, walletVars, repositoryVars, guardianVars, getAll, chainHead, store>>
    /\ LET leaf == refresh[c].leaves[i]
       IN  \E kind \in ErrorKinds :
              /\ ~(IsPartitionable(leaf.startBlock, leaf.endBlock) /\ IsPartitionRequired(kind))
              /\ IF FetchErrorOutcome(kind) = "sleep"
                 THEN /\ SetRefresh(c, [refresh[c] EXCEPT !.leaves[i].st = "sleep", !.queried = TRUE])
                      /\ UNCHANGED guardVars
                 ELSE /\ SetRefresh(c, [refresh[c] EXCEPT !.leaves = <<>>, !.queried = TRUE])
                      /\ Exit("handleNewBlock", c, FetchErrorOutcome(kind))

\* the sleep ends: fetchEventsFallOver(startBlock, endBlock) is called again
FetchWake(c, i) ==
    /\ Fetching(c, i)
    /\ refresh[c].leaves[i].st = "sleep"
    /\ UNCHANGED <<keysVars, transportVars, guardVars, pauseVars, walletVars, repositoryVars, guardianVars, getAll, chainHead, store>>
    /\ SetRefresh(c, [refresh[c] EXCEPT !.leaves[i].st = "query"])

RECURSIVE ConcatEvents(_)
ConcatEvents(leaves) == IF leaves = <<>> THEN <<>> ELSE Head(leaves).events \o ConcatEvents(Tail(leaves))

\* an event group that puts the chunk's events before the cached ones
AppendChunkPrepend(eventGroup, chunkEventGroup) == [eventGroup EXCEPT !.endBlock = chunkEventGroup.endBlock, !.events = chunkEventGroup.events \o @]

\* an event group whose endBlock is never advanced
AppendChunkKeepEnd(eventGroup, chunkEventGroup) == [eventGroup EXCEPT !.events = @ \o chunkEventGroup.events]

\* an event group that replaces its events by the chunk's
AppendChunkReplace(eventGroup, chunkEventGroup) == [eventGroup EXCEPT !.endBlock = chunkEventGroup.endBlock, !.events = chunkEventGroup.events]

\* eventGroup.endBlock = chunkEventGroup.endBlock; eventGroup.events = eventGroup.events.concat(chunkEventGroup.events)
AppendChunk(eventGroup, chunkEventGroup) == [eventGroup EXCEPT !.endBlock = chunkEventGroup.endBlock, !.events = @ \o chunkEventGroup.events]

\* the chunk's fetch resolved: the event group grows and is persisted, or the write rejects
ChunkPersist(c) ==
    /\ pc["handleNewBlock"][c] = "fetch"
    /\ \A i \in DOMAIN refresh[c].leaves : refresh[c].leaves[i].st = "ok"
    /\ UNCHANGED <<keysVars, transportVars, pauseVars, walletVars, repositoryVars, guardianVars, getAll, chainHead>>
    /\ LET chunkEventGroup == [events |-> ConcatEvents(refresh[c].leaves), startBlock |-> refresh[c].block, endBlock |-> ChunkToBlock(refresh[c].block, refresh[c].toBlock, DEPOSIT_EVENTS_STEP)]
           eventGroup == AppendChunk(refresh[c].eventGroup, chunkEventGroup)
       IN  \/ /\ store' = SetCachedEvents(eventGroup)
              /\ SetRefresh(c, [refresh[c] EXCEPT !.eventGroup = eventGroup, !.leaves = <<>>, !.block = NextChunkBlock(@, DEPOSIT_EVENTS_STEP), !.writes = @ + 1])
              /\ Goto("handleNewBlock", c, "loop")
           \/ /\ SetRefresh(c, [refresh[c] EXCEPT !.eventGroup = eventGroup, !.leaves = <<>>])
              /\ UNCHANGED store
              /\ Exit("handleNewBlock", c, "threw")

\* ----------------------------------------------------- getAllDepositedEvents

\* outOfOrder records that a sub-fetch resolved while one of an earlier range was pending
NoGetAll == [blockNumber |-> -1, cachedEvents |-> None, leaves |-> <<>>, outOfOrder |-> FALSE, result |-> None]

\* getAllDepositedEvents(blockNumber) is called: up to the await of getCachedEvents
GetAllInvoke ==
    /\ IsNextCall("getAllDepositedEvents", 1)
    /\ UNCHANGED <<keysVars, transportVars, isExecuting, pauseVars, walletVars, repositoryVars, guardianVars, chainHead, store, refresh>>
    /\ \E blockNumber \in 0..MaxHead : getAll' = [getAll EXCEPT !.blockNumber = blockNumber]
    /\ SetPc("getAllDepositedEvents", 1, "getCachedEvents")

\* getCachedEvents resolves: fetchEventsFallOver(firstNotCachedBlock, endBlock) is called
GetAllRead ==
    /\ pc["getAllDepositedEvents"][1] = "getCachedEvents"
    /\ UNCHANGED <<keysVars, transportVars, isExecuting, pauseVars, walletVars, repositoryVars, guardianVars, chainHead, store, refresh>>
    /\ LET endBlock == getAll.blockNumber
           cachedEvents == GetCachedEvents
           firstNotCachedBlock == cachedEvents.endBlock + 1
       IN  getAll' = [getAll EXCEPT !.cachedEvents = cachedEvents, !.leaves = <<Leaf(firstNotCachedBlock, endBlock)>>]
    /\ SetPc("getAllDepositedEvents", 1, "fetch")

GetAllFetching(i) == pc["getAllDepositedEvents"][1] = "fetch" /\ i \in DOMAIN getAll.leaves

\* fetchEvents(startBlock, endBlock) resolves
GetAllFetchOk(i) ==
    /\ GetAllFetching(i)
    /\ getAll.leaves[i].st = "query"
    /\ UNCHANGED <<keysVars, transportVars, guardVars, pauseVars, walletVars, repositoryVars, guardianVars, chainHead, store, refresh>>
    /\ LET leaf == getAll.leaves[i]
       IN  getAll' = [getAll EXCEPT !.leaves[i] = [leaf EXCEPT !.st = "ok", !.events = FetchEvents(leaf.startBlock, leaf.endBlock)],
                                    !.outOfOrder = @ \/ \E j \in 1..(i - 1) : getAll.leaves[j].st # "ok"]

\* fetchEvents rejects with a limit or timeout error on a range that can be split
GetAllFetchSplit(i) ==
    /\ GetAllFetching(i)
    /\ getAll.leaves[i].st = "query"
    /\ UNCHANGED <<keysVars, transportVars, guardVars, pauseVars, walletVars, repositoryVars, guardianVars, chainHead, store, refresh>>
    /\ LET leaf == getAll.leaves[i]
       IN  /\ \E kind \in ErrorKinds : IsPartitionable(leaf.startBlock, leaf.endBlock) /\ IsPartitionRequired(kind)
           /\ getAll' = [getAll EXCEPT !.leaves = ReplaceLeaf(@, i, SplitLeaf(leaf))]

\* fetchEvents rejects otherwise: a warning, then sleep(DEPOSIT_EVENTS_RETRY_TIMEOUT_MS)
GetAllFetchRetry(i) ==
    /\ GetAllFetching(i)
    /\ getAll.leaves[i].st = "query"
    /\ UNCHANGED <<keysVars, transportVars, pauseVars, walletVars, repositoryVars, guardianVars, chainHead, store, refresh>>
    /\ LET leaf == getAll.leaves[i]
       IN  \E kind \in ErrorKinds :
              /\ ~(IsPartitionable(leaf.startBlock, leaf.endBlock) /\ IsPartitionRequired(kind))
              /\ IF FetchErrorOutcome(kind) = "sleep"
                 THEN /\ getAll' = [getAll EXCEPT !.leaves[i].st = "sleep", !.leaves[i].err = kind]
                      /\ UNCHANGED guardVars
                 ELSE /\ getAll' = [getAll EXCEPT !.leaves[i].st = "failed", !.leaves[i].err = kind]
                      /\ Exit("getAllDepositedEvents", 1, FetchErrorOutcome(kind))

\* the sleep ends: fetchEventsFallOver(startBlock, endBlock) is called again
GetAllFetchWake(i) ==
    /\ GetAllFetching(i)
    /\ getAll.leaves[i].st = "sleep"
    /\ UNCHANGED <<keysVars, transportVars, guardVars, pauseVars, walletVars, repositoryVars, guardianVars, chainHead, store, refresh>>
    /\ getAll' = [getAll EXCEPT !.leaves[i].st = "query", !.leaves[i].err = "none"]

\* a merge that saves what it merged
PersistedAfterMergeSaved(persisted, merged) == SetCachedEvents([persisted EXCEPT !.events = merged.events, !.endBlock = merged.endBlock])

\* the merged group is returned to the caller and nothing is written
PersistedAfterMerge(persisted, merged) == persisted

\* the fetch resolved: the fresh events are appended to the cached ones and returned
\* a result that is the fresh event group alone
MergedEventGroupFreshOnly(cachedEvents, freshEvents, endBlock) == [events |-> freshEvents.events, startBlock |-> freshEvents.startBlock, endBlock |-> endBlock]

\* {events: cachedEvents.events.concat(freshEvents.events), startBlock: cachedEvents.startBlock, endBlock}
MergedEventGroup(cachedEvents, freshEvents, endBlock) == [events |-> cachedEvents.events \o freshEvents.events, startBlock |-> cachedEvents.startBlock, endBlock |-> endBlock]

GetAllReturn ==
    /\ pc["getAllDepositedEvents"][1] = "fetch"
    /\ \A i \in DOMAIN getAll.leaves : getAll.leaves[i].st = "ok"
    /\ UNCHANGED <<keysVars, transportVars, pauseVars, walletVars, repositoryVars, guardianVars, chainHead, refresh>>
    /\ LET freshEvents == [events |-> ConcatEvents(getAll.leaves), startBlock |-> getAll.cachedEvents.endBlock + 1, endBlock |-> getAll.blockNumber]
           result == MergedEventGroup(getAll.cachedEvents, freshEvents, getAll.blockNumber)
       IN  /\ getAll' = [getAll EXCEPT !.result = result]
           /\ store' = PersistedAfterMerge(store, result)
    /\ Exit("getAllDepositedEvents", 1, "returned")

NextGetAll ==
    \/ GetAllInvoke
    \/ GetAllRead
    \/ \E i \in 1..MaxHead : GetAllFetchOk(i)
    \/ \E i \in 1..MaxHead : GetAllFetchSplit(i)
    \/ \E i \in 1..MaxHead : GetAllFetchRetry(i)
    \/ \E i \in 1..MaxHead : GetAllFetchWake(i)
    \/ GetAllReturn

\* the cache as refreshes of the running build leave it when they have cached through endBlock
CacheThrough(endBlock) == SetCachedEvents([DefaultCache EXCEPT !.startBlock = DEPLOYMENT_BLOCK, !.endBlock = endBlock, !.events = FetchEvents(DEPLOYMENT_BLOCK + 1, endBlock)])

\* ------------------------------------------------------- contract repository

DAWN_DEPOSIT_ABI == "DAWN_DEPOSIT_ABI"

DSM_ABI == "DSM_ABI"

STAKING_ROUTER_ABI == "STAKING_ROUTER_ABI"

DEPOSIT_NODE_OPERATOR_ABI == "DEPOSIT_NODE_OPERATOR_ABI"

\* the keys of tempContractsCache
VolatileKeys == {DAWN_DEPOSIT_ABI, DSM_ABI, STAKING_ROUTER_ABI}

\* the addresses the locator and the security contract may report at some block
Addresses == {"0xA", "0xB"}

PrefixKinds == {"attest", "pause"}

\* contract.ATTEST_MESSAGE_PREFIX() / PAUSE_MESSAGE_PREFIX() of the contract at `address`
MessagePrefix(kind, address) == <<kind, address>>

NoPrefix == <<None, None>>

\* no handle under the key
NoHandle == [address |-> None, connectedBy |-> 0]

\* st: none, tick (contract read, awaited), call (contract call awaited), done, threw;
\* contract: the address of the handle the call read; target: the prefixes object it assigns to
NoPrefixCall == [st |-> "none", contract |-> None, target |-> -1]

NoReport == [contractKey \in VolatileKeys |-> None]

\* providerService.getBlock() at head h
Block(h) == [number |-> h, hash |-> <<"hash", h>>]

NoBlock == [number |-> -1, hash |-> <<"hash", -1>>]

\* st: idle, getBlock, pass, sleep, returned, threw; block: the block this attempt read;
\* pass: the initCachedContracts call it awaits; tag: the blockHash that pass was given
NoInitOrWait == [st |-> "idle", block |-> NoBlock, pass |-> 0, tag |-> NoBlock.hash, error |-> None, result |-> NoBlock]

\* the error getFromCache throws
NotFoundABI == "Not found ABI for key"

\* a getter that hands out whatever the key holds
GetFromCacheUnchecked(cache, abiKey) == cache[abiKey]

\* getFromCache: the handle under the key, or the error when there is none
GetFromCache(cache, abiKey) == IF cache[abiKey] # None THEN cache[abiKey] ELSE NotFoundABI

\* setContractCache logging 'Contract address was changed' on every replacement
LogOfSetContractCacheAlways(cache, address, contractKey) == IF cache[contractKey] = None THEN <<[message |-> "Contract initial address", address |-> address, contractKey |-> contractKey]>> ELSE <<[message |-> "Contract address was changed", address |-> address, contractKey |-> contractKey]>>

\* setContractCache: what it logs
LogOfSetContractCache(cache, address, contractKey) ==
    (IF cache[contractKey] = None THEN <<[message |-> "Contract initial address", address |-> address, contractKey |-> contractKey]>> ELSE <<>>)
    \o (IF cache[contractKey] # None /\ cache[contractKey] # address THEN <<[message |-> "Contract address was changed", address |-> address, contractKey |-> contractKey]>> ELSE <<>>)

\* setContractCache: tempContractsCache[contractKey] = impl
SetContractCache(address, contractKey) ==
    /\ logged' = LogOfSetContractCache(tempContractsCache, address, contractKey)
    /\ tempContractsCache' = [tempContractsCache EXCEPT ![contractKey] = address]

\* a pass of initCachedContracts is running
PassRunning(c) == InBody("initCachedContracts", c)

\* initCachedContracts(blockTag) is called: up to await locatorService.getLidoAddress
InitInvoke(c) ==
    /\ IsNextCall("initCachedContracts", c)
    /\ SetPc("initCachedContracts", c, "getLidoAddress")
    /\ logged' = <<>>
    /\ reported' = [d \in Calls |-> IF PassRunning(d) THEN reported[d] ELSE NoReport]
    /\ UNCHANGED <<keysVars, transportVars, isExecuting, pauseVars, walletVars, guardianVars, depositVars, tempContractsCache, permanentContractsCache, depositCall, cachedDSMPrefixes, prefixCall>>

\* the caller awaits each pass before it starts the next
InitInvokeSerial(c) == (\A d \in Calls : ~PassRunning(d)) /\ InitInvoke(c) /\ UNCHANGED initOrWait

\* getLidoAddress resolves: setContractCache, then initCachedDSMContract up to await getDSMAddress
InitLido(c) ==
    /\ pc["initCachedContracts"][c] = "getLidoAddress"
    /\ UNCHANGED <<keysVars, transportVars, pauseVars, walletVars, guardianVars, depositVars, permanentContractsCache, initOrWait, depositCall, cachedDSMPrefixes, prefixCall>>
    /\ \/ \E address \in Addresses :
            /\ SetContractCache(address, DAWN_DEPOSIT_ABI)
            /\ reported' = [reported EXCEPT ![c][DAWN_DEPOSIT_ABI] = address]
            /\ Goto("initCachedContracts", c, "getDSMAddress")
       \/ /\ Exit("initCachedContracts", c, "threw")
          /\ logged' = <<>>
          /\ UNCHANGED <<keysVars, transportVars, tempContractsCache, reported>>

\* getDSMAddress resolves: setContractCache, the prefixes are pruned, and both prefix
\* getters are called: each finds no entry, reads the handle and awaits it
InitDSM(c) ==
    /\ pc["initCachedContracts"][c] = "getDSMAddress"
    /\ UNCHANGED <<keysVars, transportVars, pauseVars, walletVars, guardianVars, depositVars, permanentContractsCache, initOrWait, depositCall>>
    /\ \/ \E address \in Addresses :
            /\ SetContractCache(address, DSM_ABI)
            /\ reported' = [reported EXCEPT ![c][DSM_ABI] = address]
            /\ cachedDSMPrefixes' = [object |-> cachedDSMPrefixes.object + 1, attest |-> NoPrefix, pause |-> NoPrefix]
            /\ prefixCall' = [prefixCall EXCEPT ![c] = [kind \in PrefixKinds |-> [NoPrefixCall EXCEPT !.st = "tick", !.contract = address]]]
            /\ Goto("initCachedContracts", c, "prefixes")
       \/ /\ Exit("initCachedContracts", c, "threw")
          /\ logged' = <<>>
          /\ UNCHANGED <<keysVars, transportVars, tempContractsCache, reported, cachedDSMPrefixes, prefixCall>>

\* `this.cachedDSMPrefixes.attest = await contract.ATTEST_MESSAGE_PREFIX()` begins: the
\* object to assign to is the one the field holds now, then the contract is called
PrefixTick(o, kind) ==
    /\ prefixCall[o][kind].st = "tick"
    /\ logged' = <<>>
    /\ UNCHANGED <<keysVars, transportVars, guardVars, pauseVars, walletVars, guardianVars, depositVars, tempContractsCache, permanentContractsCache, initOrWait, depositCall, cachedDSMPrefixes, reported>>
    /\ prefixCall' = [prefixCall EXCEPT ![o][kind].st = "call", ![o][kind].target = cachedDSMPrefixes.object]

\* the entries after the assignment: an object that was replaced meanwhile is no longer the field's
PrefixesAfterAssign(prefixes, call, kind) == IF call.target = prefixes.object THEN [prefixes EXCEPT ![kind] = MessagePrefix(kind, call.contract)] ELSE prefixes

\* a continuation that resumes after the await of a value that is no promise is ready
\* at once and runs before the answer of any contract call is delivered
TickPending == \E c \in Calls, kind \in PrefixKinds : prefixCall[c][kind].st = "tick"

\* the contract call resolves and the prefix is assigned; or it rejects
PrefixResolve(o, kind) ==
    /\ prefixCall[o][kind].st = "call"
    /\ ~TickPending
    /\ logged' = <<>>
    /\ UNCHANGED <<keysVars, transportVars, guardVars, pauseVars, walletVars, guardianVars, depositVars, tempContractsCache, permanentContractsCache, initOrWait, depositCall, reported>>
    /\ \/ /\ cachedDSMPrefixes' = PrefixesAfterAssign(cachedDSMPrefixes, prefixCall[o][kind], kind)
          /\ prefixCall' = [prefixCall EXCEPT ![o][kind].st = "done"]
       \/ /\ prefixCall' = [prefixCall EXCEPT ![o][kind].st = "threw"]
          /\ UNCHANGED cachedDSMPrefixes

\* Promise.all of the two getters settles; then initCachedDepositContract: it returns at
\* once when the permanent handle exists, otherwise getDepositAddress reads the DSM
\* handle with getCachedDSMContract and awaits its DEPOSIT_CONTRACT
InitPrefixes(c) ==
    /\ pc["initCachedContracts"][c] = "prefixes"
    /\ logged' = <<>>
    /\ UNCHANGED <<keysVars, transportVars, pauseVars, walletVars, guardianVars, depositVars, tempContractsCache, permanentContractsCache, initOrWait, cachedDSMPrefixes, reported>>
    /\ \/ /\ \E kind \in PrefixKinds : prefixCall[c][kind].st = "threw"
          /\ Exit("initCachedContracts", c, "threw")
          /\ UNCHANGED <<keysVars, transportVars, prefixCall, depositCall>>
       \/ /\ \A kind \in PrefixKinds : prefixCall[c][kind].st = "done"
          /\ prefixCall' = [prefixCall EXCEPT ![c] = [kind \in PrefixKinds |-> NoPrefixCall]]
          /\ LET contract == GetFromCache(tempContractsCache, DSM_ABI)
             IN  IF permanentContractsCache # NoHandle
                 THEN Goto("initCachedContracts", c, "getStakingRouterAddress") /\ UNCHANGED depositCall
                 ELSE IF contract = NotFoundABI
                      THEN Exit("initCachedContracts", c, "threw") /\ UNCHANGED depositCall
                      ELSE Goto("initCachedContracts", c, "getDepositAddress") /\ depositCall' = [depositCall EXCEPT ![c] = contract]

\* getDepositAddress resolves: setPermanentContractCache logs and stores the handle
InitDeposit(c) ==
    /\ pc["initCachedContracts"][c] = "getDepositAddress"
    /\ UNCHANGED <<keysVars, transportVars, pauseVars, walletVars, guardianVars, depositVars, tempContractsCache, initOrWait, cachedDSMPrefixes, prefixCall, reported>>
    /\ depositCall' = [depositCall EXCEPT ![c] = None]
    /\ \/ \E depositAddress \in Addresses :
            /\ logged' = <<[message |-> "Contract initial address", address |-> depositAddress, contractKey |-> DEPOSIT_NODE_OPERATOR_ABI]>>
            /\ permanentContractsCache' = [address |-> depositAddress, connectedBy |-> c]
            /\ Goto("initCachedContracts", c, "getStakingRouterAddress")
       \/ /\ Exit("initCachedContracts", c, "threw")
          /\ logged' = <<>>
          /\ UNCHANGED permanentContractsCache

\* getStakingRouterAddress resolves: setContractCache, and the pass is complete
InitStakingRouter(c) ==
    /\ pc["initCachedContracts"][c] = "getStakingRouterAddress"
    /\ UNCHANGED <<keysVars, transportVars, pauseVars, walletVars, guardianVars, depositVars, permanentContractsCache, initOrWait, depositCall, cachedDSMPrefixes, prefixCall>>
    /\ \/ \E address \in Addresses :
            /\ SetContractCache(address, STAKING_ROUTER_ABI)
            /\ reported' = [reported EXCEPT ![c][STAKING_ROUTER_ABI] = address]
            /\ Exit("initCachedContracts", c, "returned")
       \/ /\ Exit("initCachedContracts", c, "threw")
          /\ logged' = <<>>
          /\ UNCHANGED <<keysVars, transportVars, tempContractsCache, reported>>

\* the steps of a pass after its call, and of its prefix getters
NextInitSteps ==
    \/ \E c \in Calls : InitLido(c)
    \/ \E c \in Calls : InitDSM(c)
    \/ \E c \in Calls : InitPrefixes(c)
    \/ \E c \in Calls : InitDeposit(c)
    \/ \E c \in Calls : InitStakingRouter(c)
    \/ \E o \in Calls, kind \in PrefixKinds : PrefixTick(o, kind)
    \/ \E o \in Calls, kind \in PrefixKinds : PrefixResolve(o, kind)

\* initOrWaitCachedContracts() is called: up to await providerService.getBlock()
InitOrWaitInvoke ==
    /\ initOrWait.st = "idle"
    /\ initOrWait' = [initOrWait EXCEPT !.st = "getBlock"]
    /\ logged' = <<>>
    /\ UNCHANGED <<keysVars, transportVars, guardVars, pauseVars, walletVars, guardianVars, depositVars, tempContractsCache, permanentContractsCache, cachedDSMPrefixes, prefixCall, depositCall, reported>>

\* getBlock resolves and initCachedContracts({blockHash: block.hash}) is called inside
\* the try; or getBlock rejects, outside the try
InitOrWaitGetBlock ==
    /\ initOrWait.st = "getBlock"
    /\ \/ \E c \in Calls :
            /\ InitInvoke(c)
            /\ initOrWait' = [initOrWait EXCEPT !.st = "pass", !.block = Block(chainHead), !.pass = c, !.tag = Block(chainHead).hash]
       \/ /\ initOrWait' = [initOrWait EXCEPT !.st = "threw", !.error = "getBlock"]
          /\ logged' = <<>>
          /\ UNCHANGED <<keysVars, transportVars, guardVars, pauseVars, walletVars, guardianVars, depositVars, tempContractsCache, permanentContractsCache, cachedDSMPrefixes, prefixCall, depositCall, reported>>

\* a catch that hands the error of the pass to the caller
AfterPassFailedRethrow == "threw"

\* catch (error) { logger.error('Init contracts error. Retry', error); await sleep(INIT_CONTRACTS_TIMEOUT); ... }
AfterPassFailed == "sleep"

\* the awaited pass settles: return block, or the catch
InitOrWaitPassDone ==
    /\ initOrWait.st = "pass"
    /\ pc["initCachedContracts"][initOrWait.pass] \in {"returned", "threw"}
    /\ IF pc["initCachedContracts"][initOrWait.pass] = "returned"
       THEN /\ initOrWait' = [initOrWait EXCEPT !.st = "returned", !.result = initOrWait.block]
            /\ logged' = <<>>
       ELSE /\ initOrWait' = [initOrWait EXCEPT !.st = AfterPassFailed, !.error = (IF AfterPassFailed = "threw" THEN "initCachedContracts" ELSE @)]
            /\ logged' = <<[message |-> "Init contracts error. Retry", address |-> None, contractKey |-> None]>>
    /\ UNCHANGED <<keysVars, transportVars, guardVars, pauseVars, walletVars, guardianVars, depositVars, tempContractsCache, permanentContractsCache, cachedDSMPrefixes, prefixCall, depositCall, reported>>

\* the sleep ends: return await this.initOrWaitCachedContracts(), which reads a block again
InitOrWaitWake ==
    /\ initOrWait.st = "sleep"
    /\ initOrWait' = [initOrWait EXCEPT !.st = "getBlock"]
    /\ logged' = <<>>
    /\ UNCHANGED <<keysVars, transportVars, guardVars, pauseVars, walletVars, guardianVars, depositVars, tempContractsCache, permanentContractsCache, cachedDSMPrefixes, prefixCall, depositCall, reported>>

\* a block arrives while the call waits out INIT_CONTRACTS_TIMEOUT; the head is read
\* only by the getBlock that follows
InitOrWaitHead == initOrWait.st = "sleep" /\ chainHead = initOrWait.block.number /\ ProviderHead /\ chainHead' > chainHead

\* the start of the repository through initOrWaitCachedContracts, on a chain that moves
NextInitOrWait == InitOrWaitHead \/ InitOrWaitInvoke \/ InitOrWaitGetBlock \/ InitOrWaitPassDone \/ InitOrWaitWake \/ NextInitSteps

\* a service reads a volatile handle: getCacheDawnDepositContract, getCachedDSMContract,
\* getCachedStakingRouterContract; the step notes the handle returned or the error thrown
GetCachedContract(abiKey) ==
    /\ logged' = <<[message |-> "getFromCache", address |-> GetFromCache(tempContractsCache, abiKey), contractKey |-> abiKey]>>
    /\ UNCHANGED <<keysVars, transportVars, guardVars, pauseVars, walletVars, guardianVars, depositVars, tempContractsCache, permanentContractsCache, initOrWait, cachedDSMPrefixes, prefixCall, depositCall, reported>>

\* passes one after another, as a caller that awaits each pass runs them, and the
\* services that read the handles at any time
NextRepository == (\E c \in Calls : InitInvokeSerial(c)) \/ NextInitSteps \/ (\E abiKey \in VolatileKeys : GetCachedContract(abiKey))

\* passes that may overlap
NextRepositoryOverlap == (\E c \in Calls : InitInvoke(c) /\ UNCHANGED initOrWait) \/ NextInitSteps

\* ---------------------------------------------------- staking router keys

\* the staking module whose keys the daemon asks for
StakingModuleIds == {1}

\* calls of getStakingModuleUnusedKeys, in their order of arrival
KeysCalls == 1..MaxKeysCalls

KeysBlockHashes == {Block(h).hash : h \in 0..MaxKeysBlock}

\* what keysApiService.getUnusedModuleKeys(id) may resolve to: the module's nonce
\* (data.module.nonce) and the block of the snapshot (meta.elBlockSnapshot.blockHash)
SRModuleKeysResponses == [id : StakingModuleIds, nonce : 0..MaxNonce, blockHash : KeysBlockHashes]

\* no entry under the module id
NoResponse == [id |-> 0, nonce |-> -1, blockHash |-> NoBlock.hash]

\* st: idle, getUnusedModuleKeys, returned, threw; asked: the keys API was called
NoKeysCall == [st |-> "idle", blockHash |-> NoBlock.hash, id |-> 0, nonce |-> -1, asked |-> FALSE, result |-> NoResponse, error |-> None]

\* throw Error('Blockhash of the received keys does not match the current blockhash')
BlockhashMismatch == "Blockhash of the received keys does not match the current blockhash"

\* this.stakingRouterCache[stakingModuleId]
GetStakingRouterKeysCache(stakingModuleId) == stakingRouterCache[stakingModuleId]

\* if (!cache) return true; return cache.data.module.nonce !== nextNonce
IsNeedToUpdateState(stakingModuleId, nextNonce) ==
    LET cache == GetStakingRouterKeysCache(stakingModuleId)
    IN  IF cache = NoResponse THEN TRUE ELSE cache.nonce # nextNonce

\* a check that lets every response through
IsOtherBlockNever(srModuleBlockHash, blockHash) == FALSE

\* if (srModuleBlockHash !== blockHash) ... throw
IsOtherBlock(srModuleBlockHash, blockHash) == srModuleBlockHash # blockHash

\* getStakingModuleUnusedKeys(blockHash) is called for module id with nonce: it returns
\* the stored response, or runs up to await keysApiService.getUnusedModuleKeys(id)
GetStakingModuleUnusedKeys(c, blockHash, id, nonce) ==
    /\ keysCall[c].st = "idle"
    /\ \A d \in KeysCalls : d < c => keysCall[d].st # "idle"
    /\ IF ~IsNeedToUpdateState(id, nonce)
       THEN keysCall' = [keysCall EXCEPT ![c] = [st |-> "returned", blockHash |-> blockHash, id |-> id, nonce |-> nonce, asked |-> FALSE, result |-> GetStakingRouterKeysCache(id), error |-> None]]
       ELSE keysCall' = [keysCall EXCEPT ![c] = [st |-> "getUnusedModuleKeys", blockHash |-> blockHash, id |-> id, nonce |-> nonce, asked |-> TRUE, result |-> NoResponse, error |-> None]]
    /\ UNCHANGED <<guardVars, pauseVars, walletVars, repositoryVars, guardianVars, depositVars, transportVars, stakingRouterCache>>

\* the keys API resolves: the block hash check, then setStakingRouterCache and return
KeysApiResolve(c, srResponse) ==
    /\ keysCall[c].st = "getUnusedModuleKeys"
    /\ srResponse.id = keysCall[c].id
    /\ IF IsOtherBlock(srResponse.blockHash, keysCall[c].blockHash)
       THEN /\ keysCall' = [keysCall EXCEPT ![c].st = "threw", ![c].error = BlockhashMismatch]
            /\ UNCHANGED stakingRouterCache
       ELSE /\ stakingRouterCache' = [stakingRouterCache EXCEPT ![keysCall[c].id] = srResponse]
            /\ keysCall' = [keysCall EXCEPT ![c].st = "returned", ![c].result = srResponse]
    /\ UNCHANGED <<guardVars, pauseVars, walletVars, repositoryVars, guardianVars, depositVars, transportVars>>

\* the keys API rejects
KeysApiReject(c) ==
    /\ keysCall[c].st = "getUnusedModuleKeys"
    /\ keysCall' = [keysCall EXCEPT ![c].st = "threw", ![c].error = "getUnusedModuleKeys rejected"]
    /\ UNCHANGED <<guardVars, pauseVars, walletVars, repositoryVars, guardianVars, depositVars, transportVars, stakingRouterCache>>

NextStakingRouter ==
    \/ \E c \in KeysCalls, blockHash \in KeysBlockHashes, id \in StakingModuleIds, nonce \in 0..MaxNonce : GetStakingModuleUnusedKeys(c, blockHash, id, nonce)
    \/ \E c \in KeysCalls, srResponse \in SRModuleKeysResponses : KeysApiResolve(c, srResponse)
    \/ \E c \in KeysCalls : KeysApiReject(c)

\* -------------------------------------------------------- message transport

MessageTypes == {"deposit", "pause"}

\* subscribe(topic, messageType, cb): setInterval(() => this._subscribe(messageType, cb), 1000)
Subscribe(messageType) ==
    /\ Len(intervals) < MaxIntervals
    /\ intervals' = Append(intervals, messageType)
    /\ UNCHANGED <<guardVars, pauseVars, walletVars, repositoryVars, guardianVars, depositVars, keysVars, closed, polls>>

\* disconnect(): this.closed = true
Disconnect ==
    /\ closed' = TRUE
    /\ closed = FALSE
    /\ UNCHANGED <<guardVars, pauseVars, walletVars, repositoryVars, guardianVars, depositVars, keysVars, intervals, polls>>

\* timer i fires: _subscribe runs up to await this.client.get(messageType, 1000)
PollStart(i) ==
    /\ i \in 1..Len(intervals)
    /\ Len(polls) < MaxPolls
    /\ polls' = Append(polls, [interval |-> i, messageType |-> intervals[i], st |-> "get", left |-> 0, invoked |-> 0])
    /\ UNCHANGED <<guardVars, pauseVars, walletVars, repositoryVars, guardianVars, depositVars, keysVars, closed, intervals>>

\* client.get resolves with n messages: the first cb(JSON.parse(...)) is called, or the loop is empty
PollGot(p, n) ==
    /\ p \in 1..Len(polls)
    /\ polls[p].st = "get"
    /\ IF n = 0
       THEN polls' = [polls EXCEPT ![p].st = "done"]
       ELSE polls' = [polls EXCEPT ![p].st = "cb", ![p].left = n - 1, ![p].invoked = 1]
    /\ UNCHANGED <<guardVars, pauseVars, walletVars, repositoryVars, guardianVars, depositVars, keysVars, closed, intervals>>

\* await cb(...) resolves: the next message's cb is called, or the loop ends
CallbackDone(p) ==
    /\ p \in 1..Len(polls)
    /\ polls[p].st = "cb"
    /\ IF polls[p].left = 0
       THEN polls' = [polls EXCEPT ![p].st = "done"]
       ELSE polls' = [polls EXCEPT ![p].left = @ - 1, ![p].invoked = @ + 1]
    /\ UNCHANGED <<guardVars, pauseVars, walletVars, repositoryVars, guardianVars, depositVars, keysVars, closed, intervals>>

NextTransport ==
    \/ \E messageType \in MessageTypes : Subscribe(messageType)
    \/ Disconnect
    \/ \E i \in 1..MaxIntervals : PollStart(i)
    \/ \E p \in 1..MaxPolls, n \in 0..MaxMessages : PollGot(p, n)
    \/ \E p \in 1..MaxPolls : CallbackDone(p)

\* ------------------------------------------------------------------- process

InitServices ==
    /\ pc = [m \in Methods |-> [c \in Calls |-> "idle"]]
    /\ isExecuting = [m \in Methods |-> FALSE]
    /\ pcall = [m \in PauseMethods |-> [c \in Calls |-> NoPauseCall]]
    /\ pauseAttempts = 0
    /\ cachedPauseMessagePrefix = None
    /\ cachedSignerContract = FALSE
    /\ accountBalance = None
    /\ refresh = [c \in Calls |-> NoRefresh]
    /\ getAll = NoGetAll
    /\ tempContractsCache = [contractKey \in VolatileKeys |-> None]
    /\ permanentContractsCache = NoHandle
    /\ cachedDSMPrefixes = [object |-> 0, attest |-> NoPrefix, pause |-> NoPrefix]
    /\ prefixCall = [o \in Calls |-> [kind \in PrefixKinds |-> NoPrefixCall]]
    /\ depositCall = [c \in Calls |-> None]
    /\ initOrWait = NoInitOrWait
    /\ stakingRouterCache = [stakingModuleId \in StakingModuleIds |-> NoResponse]
    /\ keysCall = [c \in KeysCalls |-> NoKeysCall]
    /\ closed = FALSE
    /\ intervals = <<>>
    /\ polls = <<>>
    /\ reported = [c \in Calls |-> NoReport]
    /\ logged = <<>>
    /\ guardians = <<AddressOf(PRIVATE_KEY)>>
    /\ guardianIndex = NoGuardianIndex
    /\ guardianLogged = None
    /\ cachedWallet = NoWallet
    /\ lastAccess = NoWallet
    /\ firstSigned = NoSigned
    /\ signed = NoSigned

\* a process that was given its private key
InitProcess == InitServices /\ privateKey = PRIVATE_KEY

Init ==
    /\ InitProcess
    /\ depositsPaused = FALSE
    /\ chainHead = 0
    /\ store = DefaultCache

\* the process dies at any point and is started again: only the persisted cache and the chain remain
Crash ==
    /\ \E c \in Calls : pc["handleNewBlock"][c] # "idle"
    /\ pc' = [m \in Methods |-> [c \in Calls |-> "idle"]]
    /\ isExecuting' = [m \in Methods |-> FALSE]
    /\ refresh' = [c \in Calls |-> NoRefresh]
    /\ getAll' = NoGetAll
    /\ UNCHANGED <<keysVars, transportVars, pauseVars, walletVars, repositoryVars, guardianVars, chainHead, store>>

NextRefresh ==
    \/ \E c \in Calls : HandleNewBlock(c)
    \/ \E c \in Calls : RefreshRead(c)
    \/ \E c \in Calls : ChunkStart(c)
    \/ \E c \in Calls : RefreshDone(c)
    \/ \E c \in Calls, i \in 1..DEPOSIT_EVENTS_STEP : FetchOk(c, i)
    \/ \E c \in Calls, i \in 1..DEPOSIT_EVENTS_STEP : FetchSplit(c, i)
    \/ \E c \in Calls, i \in 1..DEPOSIT_EVENTS_STEP : FetchRetry(c, i)
    \/ \E c \in Calls, i \in 1..DEPOSIT_EVENTS_STEP : FetchWake(c, i)
    \/ \E c \in Calls : ChunkPersist(c)

NextDeposit == ProviderHead \/ Crash \/ NextRefresh

NextPauseAKey ==
    \/ \E c \in Calls : SignPauseData(c)
    \/ \E c \in Calls : PauseAKeyInvoke(c)
    \/ \E c \in Calls : PauseAKeyGetContract(c)
    \/ \E c \in Calls : PauseAKeySend(c)
    \/ \E c \in Calls : PauseAKeyWait(c)

NextPauseDeposits ==
    \/ \E c \in Calls : PauseDepositsInvoke(c)
    \/ \E c \in Calls : PauseDepositsIsPaused(c)
    \/ \E c \in Calls : PauseDepositsSend(c)

NextPause == ExternalPause \/ NextPauseAKey \/ NextPauseDeposits

\* the version tag of a cache persisted by an earlier build
StaleVersion == "V1"

\* an event as the earlier build cached it
StaleEvent == [formatEvent(RawEvent(DEPLOYMENT_BLOCK + 1, 1)) EXCEPT !.amount = "v1"]

\* a cache persisted by an earlier build
StaleCache == [version |-> StaleVersion, startBlock |-> DEPLOYMENT_BLOCK, endBlock |-> DEPLOYMENT_BLOCK + 1, events |-> <<StaleEvent>>]

\* a cache persisted by the running build
MatchingCache == SetCachedEvents([version |-> DefaultCache.version, startBlock |-> DEPLOYMENT_BLOCK, endBlock |-> DEPLOYMENT_BLOCK + 1, events |-> FetchEvents(DEPLOYMENT_BLOCK + 1, DEPLOYMENT_BLOCK + 1)])

\* onModuleInit: getCachedEvents resolves and the versions are compared
OnModuleInitRead ==
    /\ pc["onModuleInit"][1] = "getCachedEvents"
    /\ UNCHANGED <<keysVars, transportVars, isExecuting, pauseVars, walletVars, repositoryVars, guardianVars, depositVars>>
    /\ LET cache == GetCachedEvents
       IN  IF cache.version = APP_VERSION
           THEN SetPc("onModuleInit", 1, "returned")
           ELSE SetPc("onModuleInit", 1, "deleteCachedEvents")

\* a wipe failure that is logged and survived
AfterWipeFailContinue == "returned"

\* catch (error) { logger.error(error); process.exit(1) }
AfterWipeFail == "exited"

\* process.exit: every call in flight dies with the process
ProcessExit ==
    /\ pc' = [m \in Methods |-> [c \in Calls |-> IF m = "onModuleInit" /\ c = 1 THEN "exited" ELSE "idle"]]
    /\ isExecuting' = [m \in Methods |-> FALSE]
    /\ refresh' = [c \in Calls |-> NoRefresh]
    /\ getAll' = NoGetAll

\* onModuleInit: deleteCachedEvents resolves, or rejects
OnModuleInitDelete ==
    /\ pc["onModuleInit"][1] = "deleteCachedEvents"
    /\ UNCHANGED <<keysVars, transportVars, pauseVars, walletVars, repositoryVars, guardianVars, chainHead>>
    /\ \/ /\ store' = DefaultCache
          /\ SetPc("onModuleInit", 1, "returned")
          /\ UNCHANGED <<keysVars, transportVars, isExecuting, refresh, getAll>>
       \/ /\ UNCHANGED store
          /\ IF AfterWipeFail = "exited" THEN ProcessExit ELSE Goto("onModuleInit", 1, AfterWipeFail) /\ UNCHANGED <<keysVars, transportVars, refresh, getAll>>

NextStartup == OnModuleInitRead \/ OnModuleInitDelete

NextWallet ==
    \/ \E c \in Calls : UpdateBalanceInvoke(c)
    \/ \E c \in Calls : UpdateBalanceDone(c)

\* one process run on a quiet chain that holds one full chunk to fetch
InitGuard ==
    /\ InitProcess
    /\ depositsPaused = FALSE
    /\ chainHead = DEPLOYMENT_BLOCK + DEPOSIT_EVENTS_STEP + DEPOSIT_EVENTS_CACHE_LAG_BLOCKS
    /\ store = DefaultCache

\* the process starts over a persisted cache of an earlier build, of the running
\* build, or over none, on a chain that holds a chunk to fetch
InitStartup ==
    /\ pc = [m \in Methods |-> [c \in Calls |-> IF m = "onModuleInit" /\ c = 1 THEN "getCachedEvents" ELSE "idle"]]
    /\ isExecuting = [m \in Methods |-> FALSE]
    /\ pcall = [m \in PauseMethods |-> [c \in Calls |-> NoPauseCall]]
    /\ pauseAttempts = 0
    /\ cachedPauseMessagePrefix = None
    /\ cachedSignerContract = FALSE
    /\ accountBalance = None
    /\ refresh = [c \in Calls |-> NoRefresh]
    /\ getAll = NoGetAll
    /\ tempContractsCache = [contractKey \in VolatileKeys |-> None]
    /\ permanentContractsCache = NoHandle
    /\ cachedDSMPrefixes = [object |-> 0, attest |-> NoPrefix, pause |-> NoPrefix]
    /\ prefixCall = [o \in Calls |-> [kind \in PrefixKinds |-> NoPrefixCall]]
    /\ depositCall = [c \in Calls |-> None]
    /\ initOrWait = NoInitOrWait
    /\ stakingRouterCache = [stakingModuleId \in StakingModuleIds |-> NoResponse]
    /\ keysCall = [c \in KeysCalls |-> NoKeysCall]
    /\ closed = FALSE
    /\ intervals = <<>>
    /\ polls = <<>>
    /\ reported = [c \in Calls |-> NoReport]
    /\ logged = <<>>
    /\ guardians = <<AddressOf(PRIVATE_KEY)>>
    /\ guardianIndex = NoGuardianIndex
    /\ guardianLogged = None
    /\ privateKey = PRIVATE_KEY
    /\ cachedWallet = NoWallet
    /\ lastAccess = NoWallet
    /\ firstSigned = NoSigned
    /\ signed = NoSigned
    /\ depositsPaused = FALSE
    /\ chainHead = DEPLOYMENT_BLOCK + 1 + DEPOSIT_EVENTS_STEP + DEPOSIT_EVENTS_CACHE_LAG_BLOCKS
    /\ store \in {StaleCache, MatchingCache, DefaultCache}

\* startup, with new-block notifications arriving at any time
SpecStartup == InitStartup /\ [][NextStartup \/ NextRefresh]_vars

\* a running process over an empty cache or one that refreshes have filled
InitFetch ==
    /\ InitProcess
    /\ depositsPaused = FALSE
    /\ chainHead = MaxHead
    /\ store \in {DefaultCache} \cup {CacheThrough(endBlock) : endBlock \in (DEPLOYMENT_BLOCK + 1)..(MaxHead - DEPOSIT_EVENTS_CACHE_LAG_BLOCKS)}

\* one getAllDepositedEvents call and its fetch
SpecFetch == InitFetch /\ [][NextGetAll]_vars

\* a cache file as a build with some deployment block left it: the process may be
\* started on a file written for another network or by another release
PersistedCache(startBlock, endBlock) == SetCachedEvents([DefaultCache EXCEPT !.startBlock = startBlock, !.endBlock = endBlock, !.events = FetchEvents(startBlock + 1, endBlock)])

\* a running process over any cache file whose startBlock is not above its endBlock
InitCached ==
    /\ InitProcess
    /\ depositsPaused = FALSE
    /\ chainHead = MaxHead
    /\ store \in {DefaultCache} \cup {PersistedCache(range[1], range[2]) : range \in {r \in (0..(DEPLOYMENT_BLOCK + 1)) \X (0..(DEPLOYMENT_BLOCK + 2)) : r[1] <= r[2]}}

\* getCachedEvents as getAllDepositedEvents calls it, over any cache file
SpecCached == InitCached /\ [][NextGetAll]_vars

\* a process with or without a private key
InitSigning ==
    /\ InitServices
    /\ privateKey \in {PRIVATE_KEY, NoKey}
    /\ depositsPaused = FALSE
    /\ chainHead = 0
    /\ store = DefaultCache

\* the wallet and the signing of attestations
SpecSigning == InitSigning /\ [][NextSigning]_vars

\* the guardian lookup and the start of SecurityService
SpecGuardian == InitSigning /\ [][NextGuardian]_vars

\* the contract repository with its passes run one after another
SpecRepository == Init /\ [][NextRepository]_vars

\* calls of getStakingModuleUnusedKeys, overlapping at the keys API
SpecStakingRouter == Init /\ [][NextStakingRouter]_vars

\* subscriptions, timers and disconnect of the message transport
SpecTransport == Init /\ [][NextTransport]_vars

\* the contract repository started through initOrWaitCachedContracts
SpecInitOrWait == Init /\ [][NextInitOrWait]_vars

\* the contract repository with overlapping passes
SpecRepositoryOverlap == Init /\ [][NextRepositoryOverlap]_vars

\* the deposit events cache and its block handler
Spec == Init /\ [][NextDeposit]_vars

\* the scheduler runs every continuation that is ready, every sleep ends, and the
\* log query of a range that is tried again and again succeeds in the end
RefreshFairness ==
    \A c \in Calls :
        /\ WF_pc(RefreshRead(c))
        /\ WF_pc(ChunkStart(c))
        /\ WF_pc(RefreshDone(c))
        /\ WF_pc(ChunkPersist(c))
        /\ \A i \in 1..DEPOSIT_EVENTS_STEP : WF_<<refresh[c].leaves>>(FetchWake(c, i)) /\ SF_<<refresh[c].leaves>>(FetchOk(c, i))

\* a process that stays up, with log queries that stop failing
SpecLive == Init /\ [][ProviderHead \/ NextRefresh]_vars /\ RefreshFairness

\* the pause submission, in both variants of the security service
SpecPause == Init /\ [][NextPause]_vars

\* the three guarded methods side by side
SpecGuard == InitGuard /\ [][NextRefresh \/ NextPauseAKey \/ NextWallet]_vars

\* -------------------------------------------------------------------- claims

GuardedMethods == {"handleNewBlock", "pauseAKeyDeposits", "updateBalance"}

\* the pc a call of m is in when the guarded method is called
ArrivalPc(m) == IF m = "pauseAKeyDeposits" THEN "signed" ELSE "idle"

InFlight(m) == {c \in Calls : InBody(m, c)}

\* call c of m is made in this step
Arrives(m, c) == pc[m][c] = ArrivalPc(m) /\ pc'[m][c] # pc[m][c]

\* nothing of the program's state but the pc of call c of m changes in this step
\* (refresh[c].arrivedBusy records how the call arrived; the program does not hold it)
OnlyPcChanges(m, c) ==
    /\ \A n \in Methods, d \in Calls : <<n, d>> # <<m, c>> => pc'[n][d] = pc[n][d]
    /\ UNCHANGED <<isExecuting, pauseVars, walletVars, repositoryVars, guardianVars, getAll, chainHead, store>>
    /\ \A d \in Calls : refresh'[d].eventGroup = refresh[d].eventGroup /\ refresh'[d].leaves = refresh[d].leaves /\ refresh'[d].block = refresh[d].block

\* C1: of every guarded method at most one execution is in flight at any time,
\* and a call made while one is in flight ends at once as dropped: it does not
\* enter the body, raises no error and changes no state.
C1_SingleFlight ==
    /\ [](\A m \in GuardedMethods : Cardinality(InFlight(m)) <= 1)
    /\ [][\A m \in GuardedMethods, c \in Calls : (Arrives(m, c) /\ InFlight(m) # {}) => (pc'[m][c] = "dropped" /\ OnlyPcChanges(m, c))]_vars

C1_Witness == \E m \in GuardedMethods, c, d \in Calls : pc[m][c] = "dropped" /\ InBody(m, d) /\ isExecuting[m]

\* C2: the flag of a guarded method is set exactly while an execution of it is in
\* flight: it is set before the body runs, it is clear after every exit, by return
\* or by error, and a call made while it is clear is admitted.
C2_FlagFollowsExecution ==
    /\ [](\A m \in GuardedMethods : isExecuting[m] <=> InFlight(m) # {})
    /\ [][\A m \in GuardedMethods, c \in Calls : (Arrives(m, c) /\ InFlight(m) = {}) => pc'[m][c] # "dropped"]_vars

C2_Witness == \E m \in GuardedMethods, c, d \in Calls : pc[m][c] = "threw" /\ InBody(m, d) /\ isExecuting[m]

\* the calls of handleNewBlock whose refresh was started
RefreshRan == {c \in Calls : pc["handleNewBlock"][c] \in {"read", "loop", "fetch", "returned", "threw"}}

\* the triggers that arrived while no execution was in flight
AdmittedTriggers == {c \in Calls : pc["handleNewBlock"][c] # "idle" /\ ~refresh[c].arrivedBusy}

\* C3: a new-block trigger that arrives during a refresh is dropped for good: no
\* refresh is ever started for it, a refresh starts only in the step its trigger
\* arrives, and the refreshes started never outnumber the triggers that arrived
\* while none was in flight.
C3_DroppedNeverQueued ==
    /\ [](RefreshRan \subseteq AdmittedTriggers /\ Cardinality(RefreshRan) <= Cardinality(AdmittedTriggers))
    /\ [][\A c \in Calls : /\ pc["handleNewBlock"][c] = "dropped" => pc'["handleNewBlock"][c] \in {"dropped", "idle"}
                           /\ (~InBody("handleNewBlock", c) /\ InBody("handleNewBlock", c)') => pc["handleNewBlock"][c] = "idle"]_vars

C3_Witness == \E c, d \in Calls : pc["handleNewBlock"][c] = "returned" /\ refresh[c].writes > 0 /\ pc["handleNewBlock"][d] = "dropped" /\ isExecuting["handleNewBlock"] = FALSE

\* C4: a pause submission, of either variant, that is called while deposits are
\* already paused sends no transaction, and every transaction that is sent follows
\* a fresh read of the paused predicate that said not paused.
C4_NoSendWhenPaused == \A m \in PauseMethods, c \in Calls :
    /\ pcall[m][c].pausedAtInvoke => pcall[m][c].sends = 0
    /\ pcall[m][c].sends > 0 => pcall[m][c].check = "notPaused"

\* the calls of pauseAKeyDeposits that are submitting or awaiting the confirmation
Submitting == {c \in Calls : pc["pauseAKeyDeposits"][c] \in {"send", "wait"}}

\* C5 (amended): at most one pause transaction of pauseAKeyDeposits is being
\* submitted or awaiting its confirmation at any time, and the submission and the
\* confirmation wait run while the guard's flag is held; the signature is built by
\* the caller before the guarded call.
C5_OneSubmissionInFlight ==
    /\ Cardinality(Submitting) <= 1
    /\ Cardinality({c \in Calls : pcall["pauseAKeyDeposits"][c].tx = "pending"}) <= 1
    /\ \A c \in Calls : (InBody("pauseAKeyDeposits", c) \/ pcall["pauseAKeyDeposits"][c].tx = "pending") => isExecuting["pauseAKeyDeposits"]

C5_Witness == \E c, d \in Calls : pc["pauseAKeyDeposits"][c] = "wait" /\ pcall["pauseAKeyDeposits"][c].tx = "pending" /\ pc["pauseAKeyDeposits"][d] = "dropped"

\* C5 as stated: besides the above, the signing too runs inside the guard.
C5_WholeSequenceGuarded ==
    /\ [](C5_OneSubmissionInFlight)
    /\ [][\A c \in Calls : (pc["pauseAKeyDeposits"][c] = "idle" /\ pc'["pauseAKeyDeposits"][c] = "signed") => isExecuting'["pauseAKeyDeposits"]]_vars

\* C6: a pause submission whose send was rejected or whose confirmation failed
\* ends in an error for its caller: a call returns normally only when nothing it
\* sent has failed.
C6_FailurePropagates == \A m \in PauseMethods, c \in Calls :
    /\ pcall[m][c].tx \in {"rejected", "failed"} => pc[m][c] = "threw"
    /\ pc[m][c] = "returned" => pcall[m][c].tx \in {"none", "pending", "confirmed"}
    /\ (m = "pauseAKeyDeposits" /\ pc[m][c] = "returned") => pcall[m][c].tx = "confirmed"

C6_Witness == \E c, d \in Calls : /\ pcall["pauseAKeyDeposits"][c].tx = "rejected" /\ pc["pauseAKeyDeposits"][c] = "threw"
                                  /\ pcall["pauseAKeyDeposits"][d].tx = "failed" /\ pc["pauseAKeyDeposits"][d] = "threw"

\* C7: every call of a pause submission sends its transaction at most once,
\* whether the send succeeds or fails.
C7_SendAtMostOnce == \A m \in PauseMethods, c \in Calls : pcall[m][c].sends <= 1

C7_Witness == \E c, d \in Calls : /\ pcall["pauseAKeyDeposits"][c].sends = 1 /\ pcall["pauseAKeyDeposits"][c].tx = "rejected" /\ pc["pauseAKeyDeposits"][c] = "threw"
                                  /\ pcall["pauseDeposits"][d].sends = 1 /\ pcall["pauseDeposits"][d].tx = "rejected" /\ pc["pauseDeposits"][d] = "threw"

\* call c has read the head and the cache
Started(c) == refresh[c].currentBlock >= 0

\* the range call c has to fetch
RangeFirst(c) == refresh[c].initialCache.endBlock + 1

RangeLast(c) == refresh[c].currentBlock - DEPOSIT_EVENTS_CACHE_LAG_BLOCKS

\* the blocks of the chunks call c has started
ChunkBlocks(c) == UNION {refresh[c].chunks[i][1]..refresh[c].chunks[i][2] : i \in DOMAIN refresh[c].chunks}

\* C8: a refresh fetches exactly the blocks from the clamped cache's endBlock + 1 to
\* the head it read minus the lag: no query leaves that range, a refresh that
\* returns has fetched all of it, and when the range is empty the refresh makes no
\* log query and no cache write.
C8_RefreshRange == \A c \in Calls : Started(c) =>
    /\ refresh[c].toBlock = RangeLast(c)
    /\ \A i \in DOMAIN refresh[c].leaves : RangeFirst(c) <= refresh[c].leaves[i].startBlock /\ refresh[c].leaves[i].startBlock <= refresh[c].leaves[i].endBlock /\ refresh[c].leaves[i].endBlock <= RangeLast(c)
    /\ ChunkBlocks(c) \subseteq RangeFirst(c)..RangeLast(c)
    /\ pc["handleNewBlock"][c] = "returned" =>
          /\ ChunkBlocks(c) = RangeFirst(c)..RangeLast(c)
          /\ refresh[c].eventGroup.events = refresh[c].initialCache.events \o FetchEvents(RangeFirst(c), RangeLast(c))
          /\ refresh[c].writes = Len(refresh[c].chunks)
    /\ RangeFirst(c) > RangeLast(c) => (~refresh[c].queried /\ refresh[c].writes = 0 /\ refresh[c].chunks = <<>> /\ refresh[c].eventGroup = refresh[c].initialCache)

C8_Witness == \E c, d \in Calls :
    /\ pc["handleNewBlock"][c] = "returned" /\ Started(c) /\ Len(refresh[c].chunks) = 2 /\ refresh[c].writes = 2
    /\ pc["handleNewBlock"][d] = "returned" /\ Started(d) /\ RangeFirst(d) > RangeLast(d) /\ ~refresh[d].queried

\* how many events of block b the persisted cache holds
CachedEventsOfBlock(b) == Cardinality({i \in DOMAIN store.events : store.events[i].blockNumber = b})

\* C9: the chunks of one refresh are consecutive, each of 1 to STEP blocks, the
\* first starts at the range's first block and the last of a refresh that returned
\* ends at its last block; over all refreshes every block after the deployment
\* block up to the cache's endBlock is in the cache exactly once; and the walk of
\* the scenario (endBlock 200, head 250 then 260, lag 10, step 50) is [201,240]
\* then [241,250].
C9_ChunksPartition ==
    /\ \A c \in Calls : Started(c) =>
          LET ch == refresh[c].chunks
          IN  /\ \A i \in DOMAIN ch : ch[i][1] <= ch[i][2] /\ ch[i][2] - ch[i][1] + 1 <= DEPOSIT_EVENTS_STEP
              /\ ch # <<>> => ch[1][1] = RangeFirst(c)
              /\ \A i \in 1..(Len(ch) - 1) : ch[i + 1][1] = ch[i][2] + 1
              /\ (pc["handleNewBlock"][c] = "returned" /\ ch # <<>>) => ch[Len(ch)][2] = RangeLast(c)
    /\ \A b \in 0..(MaxHead + 1) : CachedEventsOfBlock(b) = (IF b \in (DEPLOYMENT_BLOCK + 1)..store.endBlock THEN DepositsInBlock(b) ELSE 0)
    /\ ChunkWalk(FirstNotCachedBlock([endBlock |-> 200]), ToBlock(250, 10), 50) = <<<<201, 240>>>>
    /\ ChunkWalk(FirstNotCachedBlock([endBlock |-> 240]), ToBlock(260, 10), 50) = <<<<241, 250>>>>

C9_Witness == \E c, d \in Calls :
    /\ pc["handleNewBlock"][c] = "returned" /\ Started(c) /\ refresh[c].writes >= 1
    /\ pc["handleNewBlock"][d] = "returned" /\ Started(d) /\ refresh[d].writes >= 1
    /\ RangeFirst(d) = RangeLast(c) + 1
    /\ store.endBlock = RangeLast(d)

\* C10: while a refresh runs, every chunk before the one being fetched has been
\* persisted; the persisted cache has startBlock <= endBlock at every point, its
\* endBlock is the end of the last completed chunk, its events are those of the
\* cache the refresh began with followed by the events of the completed chunks,
\* and a refresh started from it would begin at the block this one continues at.
C10_PersistedAfterEveryChunk ==
    /\ store.startBlock <= store.endBlock
    /\ \A c \in Calls : (Started(c) /\ pc["handleNewBlock"][c] \in {"loop", "fetch"}) =>
          /\ pc["handleNewBlock"][c] = "fetch" => refresh[c].writes = Len(refresh[c].chunks) - 1
          /\ pc["handleNewBlock"][c] = "loop" => refresh[c].writes = Len(refresh[c].chunks)
          /\ refresh[c].writes = 0 => GetCachedEvents = refresh[c].initialCache
          /\ refresh[c].writes > 0 =>
                /\ store.version = APP_VERSION
                /\ store.startBlock = refresh[c].initialCache.startBlock
                /\ store.endBlock = refresh[c].chunks[refresh[c].writes][2]
                /\ store.events = refresh[c].initialCache.events \o FetchEvents(RangeFirst(c), store.endBlock)
          /\ pc["handleNewBlock"][c] = "fetch" => FirstNotCachedBlock(GetCachedEvents) = refresh[c].chunks[Len(refresh[c].chunks)][1]
          /\ (pc["handleNewBlock"][c] = "loop" /\ refresh[c].block <= refresh[c].toBlock) => FirstNotCachedBlock(GetCachedEvents) = refresh[c].block

C10_Witness == \E c \in Calls :
    /\ pc["handleNewBlock"][c] = "fetch" /\ refresh[c].writes = 1 /\ Len(refresh[c].chunks) = 2
    /\ Len(refresh[c].initialCache.events) > 0
    /\ store.endBlock = refresh[c].chunks[1][2]

\* refresh d ran right after refresh c returned, with the same head: it read the
\* cache that c left
RanAfterAtSameHead(c, d) ==
    /\ c # d
    /\ pc["handleNewBlock"][c] = "returned" /\ Started(c)
    /\ pc["handleNewBlock"][d] = "returned" /\ Started(d)
    /\ refresh[d].currentBlock = refresh[c].currentBlock
    /\ refresh[d].initialCache = (IF refresh[c].writes > 0 THEN ClampedCache(SetCachedEvents(refresh[c].eventGroup)) ELSE refresh[c].initialCache)

\* C11: a refresh that runs after another one has returned, with the same head and
\* the same chain events, leaves the persisted cache as the first left it: it
\* makes no query and no write, and its event group is the cache it read.
C11_RefreshIdempotent == \A c, d \in Calls : RanAfterAtSameHead(c, d) =>
    /\ refresh[d].writes = 0 /\ ~refresh[d].queried /\ refresh[d].chunks = <<>>
    /\ refresh[d].eventGroup = refresh[d].initialCache
    /\ refresh[d].initialCache.endBlock = (IF refresh[c].writes > 0 THEN RangeLast(c) ELSE refresh[c].initialCache.endBlock)

C11_Witness == \E c, d \in Calls : RanAfterAtSameHead(c, d) /\ refresh[c].writes = 2 /\ store.events = refresh[c].eventGroup.events /\ store.events # <<>>

\* C12: when a refresh returns, the endBlock of the cache, as persisted and as
\* getCachedEvents returns it, is at most the head that refresh read minus the lag.
C12_EndBlockBehindHead == [][\A c \in Calls : (pc["handleNewBlock"][c] # "returned" /\ pc'["handleNewBlock"][c] = "returned" /\ refresh'[c].currentBlock >= 0) =>
    (store'.endBlock <= refresh'[c].currentBlock - DEPOSIT_EVENTS_CACHE_LAG_BLOCKS /\ ClampedCache(store').endBlock <= refresh'[c].currentBlock - DEPOSIT_EVENTS_CACHE_LAG_BLOCKS)]_vars

\* C13: the persisted cache's startBlock and endBlock never decrease, across
\* refreshes and restarts of the same build, and startBlock <= endBlock always,
\* in the persisted cache and in what getCachedEvents returns.
C13_BoundsMonotone ==
    /\ [](store.startBlock <= store.endBlock /\ GetCachedEvents.startBlock <= GetCachedEvents.endBlock)
    /\ [][store'.startBlock >= store.startBlock /\ store'.endBlock >= store.endBlock /\ ClampedCache(store').startBlock >= GetCachedEvents.startBlock /\ ClampedCache(store').endBlock >= GetCachedEvents.endBlock]_vars

C13_Witness == \E c \in Calls : Started(c) /\ refresh[c].writes = 2 /\ store.endBlock > refresh[c].chunks[1][2] /\ store.startBlock > DefaultCache.startBlock /\ Len(refresh[c].initialCache.events) > 0

\* C14: no refresh reads the cache of an earlier build: the cache a refresh starts
\* from never carries the earlier build's version, events or endBlock.
C14_NoStaleRead == \A c \in Calls : Started(c) =>
    /\ refresh[c].initialCache.version # StaleVersion
    /\ \A i \in DOMAIN refresh[c].initialCache.events : refresh[c].initialCache.events[i] # StaleEvent

\* C15: when the wipe of a mismatched cache fails the process exits: every call in
\* flight ends with it and nothing of the program runs afterwards; onModuleInit
\* returns only over a cache that is not of another build's version; and when the
\* versions match, onModuleInit returns leaving the cache as it was.
C15_WipeFailureFatal ==
    /\ [](pc["onModuleInit"][1] = "returned" => store.version # StaleVersion)
    /\ [](pc["onModuleInit"][1] = "exited" => \A m \in Methods, c \in Calls : ~InBody(m, c) /\ ~isExecuting[m])
    /\ [][pc["onModuleInit"][1] = "exited" => (pc' = pc /\ store' = store /\ refresh' = refresh /\ isExecuting' = isExecuting)]_vars
    /\ [][(pc["onModuleInit"][1] = "getCachedEvents" /\ pc'["onModuleInit"][1] # "getCachedEvents" /\ store.version = APP_VERSION) => (store' = store /\ pc'["onModuleInit"][1] = "returned")]_vars
    /\ [][(pc["onModuleInit"][1] # "deleteCachedEvents" /\ pc'["onModuleInit"][1] = "deleteCachedEvents") => store.version # APP_VERSION]_vars

C15_Witness == pc["onModuleInit"][1] = "exited" /\ store = StaleCache

\* --------------------------------------------------------------- C16 .. C20

\* a range that was put to sleep after an error of the given kinds
SleepingAfter(leaf, kinds) == leaf.st = "sleep" /\ leaf.err \in kinds

\* C16: a limit or timeout error on a range with endBlock > startBlock splits the range
\* at ceil((start + end) / 2) into two non-empty halves and the whole range is not
\* queried again: no such range waits for a retry after such an error, and the range
\* 100..110 splits into 100..104 and 105..110
C16_LimitErrorSplits ==
    /\ SplitLeaf(Leaf(100, 110)) = <<Leaf(100, 104), Leaf(105, 110)>>
    /\ \A i \in DOMAIN getAll.leaves :
          getAll.leaves[i].endBlock > getAll.leaves[i].startBlock => ~SleepingAfter(getAll.leaves[i], {"limitExceeded", "timeout"})

\* events in ascending blockNumber order
IsAscending(events) == \A i, j \in DOMAIN events : i < j => events[i].blockNumber <= events[j].blockNumber

\* the first block getAllDepositedEvents fetches
GetAllFirstBlock == getAll.cachedEvents.endBlock + 1

GetAllResolved == pc["getAllDepositedEvents"][1] = "fetch" /\ \A i \in DOMAIN getAll.leaves : getAll.leaves[i].st = "ok"

GetAllReturned == pc["getAllDepositedEvents"][1] = "returned"

\* C17: the events of a fetch that was split, to any depth and whatever the order in
\* which the sub-fetches resolved, are in ascending blockNumber order and are the
\* sequence an unsplit fetch of the same range returns
C17_SplitEqualsUnsplit ==
    /\ GetAllResolved =>
          /\ ConcatEvents(getAll.leaves) = FetchEvents(GetAllFirstBlock, getAll.blockNumber)
          /\ IsAscending(ConcatEvents(getAll.leaves))
    /\ GetAllReturned =>
          /\ getAll.result.events = getAll.cachedEvents.events \o FetchEvents(GetAllFirstBlock, getAll.blockNumber)
          /\ IsAscending(getAll.result.events)

\* a fetch split twice whose sub-fetches resolved out of order returned events of several sub-ranges
C17_Witness ==
    /\ GetAllReturned
    /\ getAll.outOfOrder
    /\ Len(getAll.leaves) >= 3
    /\ Cardinality({i \in DOMAIN getAll.leaves : getAll.leaves[i].events # <<>>}) >= 2

\* the range keeps a pending call in the next state: asleep, or querying again
StillPending(leaf) == \E j \in DOMAIN getAll'.leaves : getAll'.leaves[j].startBlock = leaf.startBlock /\ getAll'.leaves[j].endBlock = leaf.endBlock /\ getAll'.leaves[j].st \in {"sleep", "query"}

\* the pending and resolved calls cover the fetched range once, in block order
LeavesCoverRange(leaves, startBlock, endBlock) ==
    /\ leaves # <<>>
    /\ leaves[1].startBlock = startBlock
    /\ leaves[Len(leaves)].endBlock = endBlock
    /\ \A i \in 1..(Len(leaves) - 1) : leaves[i + 1].startBlock = leaves[i].endBlock + 1

\* C18: after an error that is no limit or timeout error, and after a limit or timeout
\* error on a range that cannot be split, the fetch sleeps and then queries the same
\* range again, every time: the call never ends with an error, a sleeping range is next
\* asleep or queried again, only limit and timeout errors replace a range by its halves,
\* and every result is the result of its own range
C18_RetrySameRange ==
    [][/\ pc'["getAllDepositedEvents"][1] # "threw"
       /\ \A i \in DOMAIN getAll.leaves : getAll.leaves[i].st = "sleep" => StillPending(getAll.leaves[i])
       /\ \A i \in DOMAIN getAll.leaves :
             ~IsPartitionable(getAll.leaves[i].startBlock, getAll.leaves[i].endBlock) =>
                 \E j \in DOMAIN getAll'.leaves : getAll'.leaves[j].startBlock = getAll.leaves[i].startBlock /\ getAll'.leaves[j].endBlock = getAll.leaves[i].endBlock
       /\ \A j \in DOMAIN getAll'.leaves :
             /\ getAll'.leaves[j].st = "sleep" => getAll'.leaves[j].err # "none"
             /\ getAll'.leaves[j].st = "ok" => getAll'.leaves[j].events = FetchEvents(getAll'.leaves[j].startBlock, getAll'.leaves[j].endBlock)
       /\ pc'["getAllDepositedEvents"][1] = "fetch" => LeavesCoverRange(getAll'.leaves, getAll'.cachedEvents.endBlock + 1, getAll'.blockNumber)
       /\ pc'["getAllDepositedEvents"][1] = "returned" => getAll'.result.endBlock = getAll'.blockNumber]_vars

\* a single block waits after a limit error while a longer range waits after another error
C18_Witness ==
    /\ pc["getAllDepositedEvents"][1] = "fetch"
    /\ \E i \in DOMAIN getAll.leaves : getAll.leaves[i].endBlock = getAll.leaves[i].startBlock /\ SleepingAfter(getAll.leaves[i], {"limitExceeded", "timeout"})
    /\ \E i \in DOMAIN getAll.leaves : getAll.leaves[i].endBlock > getAll.leaves[i].startBlock /\ SleepingAfter(getAll.leaves[i], {"other", "permanent"})
    /\ \E i \in DOMAIN getAll.leaves : getAll.leaves[i].st = "ok"

\* C19: a permanent error of the log query, a malformed range or filter, is handed to
\* the caller of the fetch and is never retried: no range waits for a retry after one
C19_PermanentErrorPropagates == \A i \in DOMAIN getAll.leaves : ~SleepingAfter(getAll.leaves[i], {"permanent"})

\* C20: getAllDepositedEvents never changes the cache: the persisted events, startBlock,
\* endBlock and version are the same after every step of the call as before it,
\* whatever the fetch returned
C20_GetAllLeavesCache == [][NextGetAll => store' = store]_vars

\* a call returned more events and a later endBlock than the cache holds
C20_Witness ==
    /\ GetAllReturned
    /\ Len(getAll.result.events) > Len(store.events)
    /\ getAll.result.endBlock > store.endBlock
    /\ store.events # <<>>

\* --------------------------------------------------------------- C21 .. C30

\* getCachedEvents resolved in the getAllDepositedEvents call
GetAllHasRead == pc["getAllDepositedEvents"][1] \in {"fetch", "returned"}

\* C21: getCachedEvents returns the persisted cache with startBlock and endBlock each
\* replaced by the larger of the stored value and the deployment block, and nothing
\* else changed: both are at least the deployment block, and startBlock <= endBlock
\* whenever the stored cache has it
C21_CachedEventsClamped ==
    GetAllHasRead =>
        /\ getAll.cachedEvents.version = store.version
        /\ getAll.cachedEvents.events = store.events
        /\ getAll.cachedEvents.startBlock = (IF store.startBlock >= DEPLOYMENT_BLOCK THEN store.startBlock ELSE DEPLOYMENT_BLOCK)
        /\ getAll.cachedEvents.endBlock = (IF store.endBlock >= DEPLOYMENT_BLOCK THEN store.endBlock ELSE DEPLOYMENT_BLOCK)
        /\ getAll.cachedEvents.startBlock >= DEPLOYMENT_BLOCK
        /\ getAll.cachedEvents.endBlock >= DEPLOYMENT_BLOCK
        /\ DOMAIN getAll.cachedEvents = DOMAIN store
        /\ store.startBlock <= store.endBlock => getAll.cachedEvents.startBlock <= getAll.cachedEvents.endBlock

\* a cache that starts below the deployment block and ends above it was read
C21_Witness ==
    /\ GetAllHasRead
    /\ store.startBlock < DEPLOYMENT_BLOCK
    /\ store.endBlock > DEPLOYMENT_BLOCK
    /\ store.events # <<>>

\* no pass of initCachedContracts is running
NoPassRunning == \A c \in Calls : ~PassRunning(c)

\* the entry of the kind is the prefix of the security contract that is bound
IsPrefixOfBound(kind) == cachedDSMPrefixes[kind] = MessagePrefix(kind, tempContractsCache[DSM_ABI])

\* C22: a cached prefix is never kept across a rebinding of the security contract:
\* whenever no initialisation pass is running, every cached attest or pause prefix is
\* the prefix of the security contract that is bound
C22_PrefixesOfBoundContract == NoPassRunning => \A kind \in PrefixKinds : cachedDSMPrefixes[kind] # NoPrefix => IsPrefixOfBound(kind)

\* the encoded data begin with the 32 bytes of the prefix
CarriesPrefix(encodedData, prefix) == encodedData.types # <<>> /\ encodedData.types[1] = "bytes32" /\ encodedData.values[1] = prefix

\* the prefix of the kind of attestation a signing method signs
PrefixOfMethod(method) == IF method = "signDepositData" THEN AttestMessagePrefix ELSE UnsafeMessagePrefix

\* C23: every attestation that is signed carries the prefix of its own kind: the digest
\* of a deposit attestation is taken over data that begin with the attest prefix, the
\* digest of a pause attestation over data that begin with the pause prefix
C23_SignedWithOwnPrefix == signed.method # None => CarriesPrefix(signed.encodedData, PrefixOfMethod(signed.method))

\* the addresses on a guardian list
Members(list) == {list[i] : i \in DOMAIN list}

\* C24: getGuardianIndex returns the position of this node's address on the guardian
\* list, and -1, not an error, when the address is not on it; a start with an address
\* that is not on the list logs a warning and completes
C24_GuardianIndexOrSentinel ==
    /\ guardianIndex.by # None =>
          /\ guardianIndex.index = -1 <=> guardianIndex.address \notin Members(guardianIndex.guardians)
          /\ guardianIndex.index # -1 => guardianIndex.index \in 0..(Len(guardianIndex.guardians) - 1) /\ guardianIndex.guardians[guardianIndex.index + 1] = guardianIndex.address
    /\ guardianIndex.by = "onModuleInit" =>
          /\ pc["SecurityService.onModuleInit"][1] = "returned"
          /\ guardianIndex.index = -1 <=> guardianLogged = "warn: Your address is not in the Guardian List"
    /\ guardianLogged # None => pc["SecurityService.onModuleInit"][1] = "returned"

\* the service started with a warning, and a later lookup on a list of other guardians returned -1
C24_Witness ==
    /\ pc["SecurityService.onModuleInit"][1] = "returned"
    /\ guardianLogged = "warn: Your address is not in the Guardian List"
    /\ guardianIndex.by = "indexOf"
    /\ guardianIndex.index = -1
    /\ guardianIndex.guardians # <<>>

C28_WalletGetterIdempotent ==
    [][/\ cachedWallet # NoWallet => cachedWallet' = cachedWallet
       /\ privateKey # NoKey => privateKey' = privateKey
       /\ lastAccess' # NoWallet =>
             /\ lastAccess' = cachedWallet'
             /\ lastAccess'.instance = 1
             /\ privateKey' # NoKey
             /\ lastAccess'.privateKey = privateKey'
             /\ lastAccess'.address = AddressOf(privateKey')]_vars

\* without a configured key the wallet was accessed for more than one signature
C28_Witness ==
    /\ signed.repeat
    /\ signed.method = "signDepositData"
    /\ lastAccess = cachedWallet
    /\ lastAccess.privateKey \in RandomKeys
    /\ signed.wallet = firstSigned.wallet

\* C26: the permanent handle is bound at most once: a handle that is stored is never
\* replaced or removed by a later step of any pass
C26_PermanentBoundOnce ==
    [][permanentContractsCache # NoHandle => permanentContractsCache' = permanentContractsCache]_vars

\* a step of pass c in which setContractCache stores the handle of contractKey
SetsHandle(c, contractKey) == reported[c][contractKey] = None /\ reported'[c][contractKey] # None

\* the step logs `message` for contractKey with the address it stores
LogsForKey(message, contractKey) ==
    \E i \in 1..Len(logged') :
        /\ logged'[i].message = message
        /\ logged'[i].contractKey = contractKey
        /\ logged'[i].address = tempContractsCache'[contractKey]

RefreshUntouched(c) ==
    /\ refresh[c].currentBlock = -1
    /\ refresh[c].leaves = <<>>
    /\ refresh[c].chunks = <<>>
    /\ ~refresh[c].queried
    /\ refresh[c].writes = 0

\* C29: a notification starts a refresh only when its block number is a multiple of
\* the update rate; for any other block number the call ends without having read the
\* head, queried logs or written the cache
C29_RefreshOnlyOnRate ==
    \A c \in Calls :
        /\ (InBody("handleNewBlock", c) \/ ~RefreshUntouched(c)) => refresh[c].remainder = 0
        /\ refresh[c].remainder > 0 => pc["handleNewBlock"][c] = "skipped" /\ RefreshUntouched(c)
        /\ pc["handleNewBlock"][c] = "dropped" => RefreshUntouched(c)
        /\ pc["handleNewBlock"][c] = "skipped" => refresh[c].remainder > 0

\* one notification was skipped for its block number and a later one, on the rate,
\* has refreshed the cache
C29_Witness ==
    \E c, d \in Calls :
        /\ pc["handleNewBlock"][c] = "skipped"
        /\ ~refresh[c].arrivedBusy
        /\ refresh[d].remainder = 0
        /\ refresh[d].writes > 0

\* C30: getAllDepositedEvents(blockNumber) returns the events of the persisted cache
\* followed by the events of the blocks from the cache's endBlock + 1 to blockNumber,
\* with the startBlock of the cache as getCachedEvents returns it and endBlock = blockNumber
C30_GetAllMergesCacheAndFresh ==
    GetAllReturned =>
        /\ getAll.result.events = store.events \o FetchEvents(GetCachedEvents.endBlock + 1, getAll.blockNumber)
        /\ getAll.result.startBlock = GetCachedEvents.startBlock
        /\ getAll.result.endBlock = getAll.blockNumber
        /\ DOMAIN getAll.result = {"events", "startBlock", "endBlock"}

\* a call over a cache that holds events returned them followed by fresh ones
C30_Witness ==
    /\ GetAllReturned
    /\ store.events # <<>>
    /\ getAll.blockNumber > store.endBlock
    /\ FetchEvents(store.endBlock + 1, getAll.blockNumber) # <<>>
    /\ getAll.result.startBlock = store.startBlock
    /\ Len(getAll.result.events) = Len(store.events) + Len(FetchEvents(store.endBlock + 1, getAll.blockNumber))

\* --------------------------------------------------------------- C31 .. C40

\* events begins with the sequence earlier
IsPrefixOf(earlier, events) == Len(earlier) <= Len(events) /\ SubSeq(events, 1, Len(earlier)) = earlier

\* the events of a cache are in non-decreasing block order, none after its endBlock
IsOrderedCache(cache) ==
    /\ IsAscending(cache.events)
    /\ \A i \in DOMAIN cache.events : cache.events[i].blockNumber <= cache.endBlock

\* C31: the cached event sequence is ascending and append-only: in every state the
\* persisted events are in non-decreasing blockNumber order with no blockNumber above
\* endBlock, and every write of a refresh keeps the events persisted before it as a
\* prefix of the events it persists
C31_EventsAppendOnly ==
    [][/\ IsOrderedCache(store) /\ IsOrderedCache(store')
       /\ IsOrderedCache(ClampedCache(store'))
       /\ store' # store => IsPrefixOf(store.events, store'.events)]_vars

\* a refresh over a cache that held events has persisted two chunks, the first with events
C31_Witness ==
    \E c \in Calls :
        /\ refresh[c].writes = 2
        /\ Len(refresh[c].initialCache.events) > 0
        /\ store.events # refresh[c].initialCache.events
        /\ Len(FetchEvents(refresh[c].chunks[1][1], refresh[c].chunks[1][2])) > 0
        /\ store.events = refresh[c].eventGroup.events

\* every admitted refresh ends and the guard is free again
RefreshTerminates ==
    \A c \in Calls : InBody("handleNewBlock", c) ~> (~InBody("handleNewBlock", c) /\ ~isExecuting["handleNewBlock"])

\* C32: with log queries that stop failing, every admitted refresh ends, frees the
\* guard, and when it returns the cache's endBlock is the head it read minus the lag;
\* and while a range is still being fetched the guard stays taken and no other
\* refresh runs
C32_EventuallyConsistent ==
    /\ RefreshTerminates
    /\ [][\A c \in Calls :
            (pc["handleNewBlock"][c] # "returned" /\ pc'["handleNewBlock"][c] = "returned" /\ refresh'[c].toBlock >= DEPLOYMENT_BLOCK) =>
                ClampedCache(store').endBlock = refresh'[c].toBlock]_vars
    /\ [](\A c \in Calls : pc["handleNewBlock"][c] = "fetch" =>
            /\ isExecuting["handleNewBlock"]
            /\ \A d \in Calls : d # c => ~InBody("handleNewBlock", d))

\* C33: a pause attempt submits, then awaits one confirmation, and returns only after
\* the confirmation or an error: a transaction that is submitted and not yet confirmed
\* belongs to a call that is still waiting, with its guard taken, and a call that
\* returned after submitting has its transaction confirmed
C33_ReturnsAfterConfirmation ==
    \A m \in PauseMethods, c \in Calls :
        /\ pcall[m][c].tx = "pending" => (pc[m][c] = "wait" /\ (IsGuarded(m) => isExecuting[m]))
        /\ (pc[m][c] = "returned" /\ pcall[m][c].sends > 0) => pcall[m][c].tx = "confirmed"

\* C34: in every pass the DSM handle is set before the deposit address is resolved:
\* getDepositAddress is called only with a DSM handle that this pass has bound, the
\* permanent handle is stored only by a call that went through a bound DSM handle, and
\* a read of a volatile handle that was never set throws and never returns nothing
C34_DSMBeforeDeposit ==
    [][/\ \A c \in Calls :
             (pc["initCachedContracts"][c] # "getDepositAddress" /\ pc'["initCachedContracts"][c] = "getDepositAddress") =>
                 /\ depositCall'[c] \in Addresses
                 /\ depositCall'[c] = tempContractsCache[DSM_ABI]
                 /\ reported[c][DSM_ABI] # None
       /\ permanentContractsCache' # permanentContractsCache =>
             /\ tempContractsCache[DSM_ABI] # None
             /\ \E c \in Calls : depositCall[c] \in Addresses /\ permanentContractsCache'.connectedBy = c
       /\ \A i \in 1..Len(logged') :
             logged'[i].message = "getFromCache" =>
                 /\ logged'[i].address # None
                 /\ logged'[i].address = NotFoundABI <=> tempContractsCache[logged'[i].contractKey] = None
                 /\ logged'[i].address # NotFoundABI => logged'[i].address = tempContractsCache[logged'[i].contractKey]]_vars

\* the deposit handle was resolved in a pass that has not yet set the staking router,
\* and a read of the staking router handle threw
C34_Witness ==
    /\ permanentContractsCache # NoHandle
    /\ tempContractsCache[DSM_ABI] # None
    /\ tempContractsCache[STAKING_ROUTER_ABI] = None
    /\ logged = <<[message |-> "getFromCache", address |-> NotFoundABI, contractKey |-> STAKING_ROUTER_ABI]>>

\* C35: once onModuleInit has returned, after the wipe of a cache of another version
\* or over a cache of the running version, the persisted cache holds no event of the
\* earlier build's cache
C35_NoOldEventsAfterWipe ==
    pc["onModuleInit"][1] = "returned" => \A i \in DOMAIN store.events : store.events[i] # StaleEvent

\* C36: the cache is complete for the range it claims: once a refresh has persisted
\* it, the cache holds the events of every block from the startBlock to the endBlock
\* that getCachedEvents returns, and the first refresh over an empty cache begins its
\* queries at the deployment block
C36_CacheCompleteForRange ==
    /\ store.version = APP_VERSION =>
          \A b \in GetCachedEvents.startBlock..GetCachedEvents.endBlock : CachedEventsOfBlock(b) = DepositsInBlock(b)
    /\ \A c \in Calls :
          (Started(c) /\ refresh[c].initialCache.version = DefaultCache.version /\ refresh[c].chunks # <<>>) =>
              refresh[c].chunks[1][1] <= DEPLOYMENT_BLOCK

\* C37: every event getAllDepositedEvents(blockNumber) returns has a blockNumber of
\* at most blockNumber, and the range it fetches starts at most one block after its
\* end, whatever the cache holds
C37_GetAllWithinBlock ==
    /\ GetAllHasRead => GetAllFirstBlock <= getAll.blockNumber + 1
    /\ GetAllReturned => \A i \in DOMAIN getAll.result.events : getAll.result.events[i].blockNumber <= getAll.blockNumber

\* C38: initOrWaitCachedContracts never hands an error of initCachedContracts to its
\* caller (it throws only when getBlock itself rejects); a failed pass is followed by
\* the sleep and the sleep by a new getBlock; every pass is started with the hash of the
\* block just read as its block tag; and it returns only once its latest pass returned
\* after every earlier pass threw, with the block whose hash was that pass's block tag
C38_InitOrWaitRetries ==
    [][/\ (initOrWait'.st = "threw" => initOrWait'.error = "getBlock")
       /\ (initOrWait.st = "pass" /\ initOrWait'.st # "pass" /\ pc["initCachedContracts"][initOrWait.pass] = "threw"
              => initOrWait'.st = "sleep")
       /\ (initOrWait.st = "sleep" /\ initOrWait'.st # "sleep" => initOrWait'.st = "getBlock")
       /\ (initOrWait.st = "getBlock" /\ initOrWait'.st = "pass"
              => /\ initOrWait'.block = Block(chainHead)
                 /\ initOrWait'.tag = Block(chainHead).hash
                 /\ initOrWait'.pass > initOrWait.pass
                 /\ pc'["initCachedContracts"][initOrWait'.pass] = "getLidoAddress")
       /\ (initOrWait'.st = "returned"
              => /\ pc'["initCachedContracts"][initOrWait'.pass] = "returned"
                 /\ initOrWait'.result.hash = initOrWait'.tag
                 /\ \A c \in Calls : c < initOrWait'.pass => pc'["initCachedContracts"][c] = "threw")]_vars

\* the first pass threw, the head moved during the sleep, and the second pass returned:
\* the call returned the second block
C38_Witness ==
    /\ initOrWait.st = "returned"
    /\ initOrWait.pass = 2
    /\ pc["initCachedContracts"][1] = "threw"
    /\ initOrWait.result = Block(chainHead)
    /\ chainHead > 0

\* C39: the staking-router keys cache holds only validated responses: an entry changes
\* only when a call that awaited the keys API for that module returns, and then to the
\* response whose snapshot block hash is the block hash that call was given; a call
\* that throws leaves the cache as it was, and a response of another block makes the
\* call throw; a call that finds an entry with its nonce returns that entry without
\* calling the keys API
C39_KeysCacheValidated ==
    [][/\ \A id \in StakingModuleIds : stakingRouterCache'[id] # stakingRouterCache[id] =>
              \E c \in KeysCalls :
                  /\ keysCall[c].st = "getUnusedModuleKeys" /\ keysCall'[c].st = "returned"
                  /\ keysCall[c].id = id
                  /\ stakingRouterCache'[id] = keysCall'[c].result
                  /\ stakingRouterCache'[id].blockHash = keysCall[c].blockHash
                  /\ stakingRouterCache'[id].id = id
       /\ \A c \in KeysCalls : keysCall'[c].st = "threw" /\ keysCall[c].st # "threw" => stakingRouterCache' = stakingRouterCache
       /\ \A c \in KeysCalls : keysCall[c].st = "getUnusedModuleKeys" /\ keysCall'[c].st = "returned" =>
              keysCall'[c].result.blockHash = keysCall[c].blockHash
       /\ \A c \in KeysCalls : keysCall[c].st = "idle" /\ keysCall'[c].st # "idle" =>
              LET cache == stakingRouterCache[keysCall'[c].id]
              IN  IF cache # NoResponse /\ cache.nonce = keysCall'[c].nonce
                  THEN keysCall'[c].st = "returned" /\ keysCall'[c].result = cache /\ ~keysCall'[c].asked /\ stakingRouterCache' = stakingRouterCache
                  ELSE keysCall'[c].st = "getUnusedModuleKeys" /\ keysCall'[c].asked]_vars

\* one call stored the response of its block; a later call with the entry's nonce, at
\* another block, got the entry without the keys API
C39_Witness ==
    \E c, d \in KeysCalls :
        /\ keysCall[c].st = "returned" /\ keysCall[c].asked
        /\ keysCall[c].result = stakingRouterCache[keysCall[c].id]
        /\ keysCall[d].st = "returned" /\ ~keysCall[d].asked
        /\ keysCall[d].result = stakingRouterCache[keysCall[d].id]
        /\ keysCall[d].result.blockHash # keysCall[d].blockHash

\* C40: once disconnect() has resolved, no timer starts another poll of the client and
\* no subscriber callback is invoked, whatever subscribe calls came before
C40_QuietAfterDisconnect ==
    [][closed =>
          /\ Len(polls') = Len(polls)
          /\ \A p \in 1..Len(polls) : polls'[p].invoked = polls[p].invoked]_vars

====
